---- MODULE Spec2Model ----
(***************************************************************************)
(* A model of the build-file tools of docker/android: the makefile parser  *)
(* (android/make.py), the blueprint parser (android/soong.py) and the      *)
(* name classification both share (android/util.py).                       *)
(*                                                                         *)
(* Text.  A character is a one-character string, a line is a sequence of   *)
(* characters, and a Python str is the non-empty sequence of the lines it  *)
(* splits into at "\n" (s.split('\n')): '' is << <<>> >>, 'a\n' is         *)
(* << <<"a">>, <<>> >>.  Joining strings with "\n" is then \o.             *)
(***************************************************************************)
EXTENDS Integers, Sequences, FiniteSets, TLC

VARIABLES
    dialect,    \* "make" for a makefile, "soong" for a blueprint file
    contents,   \* the text of the build file being processed
    makefile,   \* the Makefile tree: the list of its top-level nodes
    ast,        \* the blueprint Ast: the list of its rules
    pc,         \* "start", "loaded", "raised", "filtered" or "dumped"
    error,      \* the exception a call raised, "" when none
    op,         \* the last filter call: its predicate for a makefile, and
                \* [call, at, op] for a blueprint; "" when none
    repeated,   \* the last filter call was the same call as the one before
    written     \* what dump wrote to the file, <<>> before it has

vars == <<dialect, contents, makefile, ast, pc, error, op, repeated, written>>

----------------------------------------------------------------------------
(* Bounds of the model.                                                    *)

\* the most pieces (MakePieces) a makefile input text is joined from
MaxPieces == 4

\* the most rules (SoongRules) a blueprint input text is joined from
MaxRules == 2

\* the most parts a name given to util.is_test is made of
MaxParts == 3

\* the widest indent dumps is called with
MaxIndent == 4

\* the most pieces (MakePieces) a build file of build-system.py is joined from
MaxBuildPieces == 3

\* the deepest nesting of the maps Map.recurse is called on
MaxNest == 2

\* the most pieces a makefile text given to recurse is made of
MaxNodes == 6

\* the most runs of build-system.py --remove-tests on a file
MaxRuns == 3

\* the largest max_depth recurse is called with
MaxDepth == 3

----------------------------------------------------------------------------
(* Python str and list primitives.                                         *)

\* a name bound to a value: Body of the value
With(value, Body(_)) == Body(value)

EmptyStr == << <<>> >>

Front(s) == SubSeq(s, 1, Len(s) - 1)

Last(s) == s[Len(s)]

RECURSIVE JoinNL(_)
\* '\n'.join(strs) for a list of strings
JoinNL(strs) ==
    IF strs = <<>> THEN EmptyStr
    ELSE IF Len(strs) = 1 THEN strs[1]
    ELSE strs[1] \o JoinNL(Tail(strs))

\* str.splitlines() on a text whose only line terminator is "\n"
splitlines(s) == IF Last(s) = <<>> THEN Front(s) ELSE s

\* the whitespace str.lstrip() removes, as far as the inputs have it
Whitespace == {" ", "\t"}

RECURSIVE lstrip(_)
lstrip(line) ==
    IF line # <<>> /\ Head(line) \in Whitespace THEN lstrip(Tail(line)) ELSE line

startswith(line, prefix) ==
    Len(line) >= Len(prefix) /\ SubSeq(line, 1, Len(prefix)) = prefix

startswith_any(line, prefixes) ==
    \E i \in 1..Len(prefixes) : startswith(line, prefixes[i])

RECURSIVE flatten(_)
\* util.flatten: the concatenation of a list of lists
flatten(lst) == IF lst = <<>> THEN <<>> ELSE Head(lst) \o flatten(Tail(lst))

----------------------------------------------------------------------------
(* The makefile tree.  A Makefile and a BlockList are lists of nodes; the  *)
(* end of a DirectiveBlock is <<>> for None and <<line>> otherwise.  A     *)
(* node of kind "Raise" stands for an exception raised while the node was  *)
(* being built: it is carried to the caller, which then raises.            *)

Block(text) == [kind |-> "Block", text |-> text]

BlockList(items) == [kind |-> "BlockList", items |-> items]

CommentBlock(comment, title, child) ==
    [kind |-> "CommentBlock", comment |-> comment, title |-> title, child |-> child]

Raise(err) == [kind |-> "Raise", error |-> err]

is_block(n) == n.kind = "Block"

is_block_list(n) == n.kind = "BlockList"

is_comment(n) == n.kind = "CommentBlock"

is_directive(n) == n.kind = "DirectiveBlock"

is_raise(n) == n.kind = "Raise"

has_child(n) == n.kind \in {"CommentBlock", "DirectiveBlock"}

\* flatten_single that leaves a list of one as it is
flatten_single_never(n) == n

\* CommentBlock.flatten_single and DirectiveBlock.flatten_single
flatten_single(n) ==
    IF is_block_list(n.child) /\ Len(n.child.items) = 1
    THEN [n EXCEPT !.child = n.child.items[1]]
    ELSE n

\* DirectiveBlock.__init__, which unwraps a one-element list
DirectiveBlock(start, end, child) ==
    flatten_single([kind |-> "DirectiveBlock", start |-> start, end |-> end,
                    child |-> child])

has_block_list(n) == has_child(n) /\ is_block_list(n.child)

RECURSIVE _recurse_list(_, _, _)
RECURSIVE _recurse_list_all(_, _, _)
\* _recurse_list that stops at no depth
_recurse_list_all(lst, max_depth, depth) ==
    flatten([i \in DOMAIN lst |->
        <<lst[i]>>
        \o (IF has_block_list(lst[i])
            THEN _recurse_list(lst[i].child.items, max_depth, depth + 1)
            ELSE <<>>)])

\* list(_recurse_list(lst, max_depth, depth)): the nodes in the order they
\* are yielded; Makefile.recurse and BlockList.recurse both call it on
\* themselves
_recurse_list(lst, max_depth, depth) ==
    IF depth = max_depth THEN <<>>
    ELSE flatten([i \in DOMAIN lst |->
             <<lst[i]>>
             \o (IF has_block_list(lst[i])
                 THEN _recurse_list(lst[i].child.items, max_depth, depth + 1)
                 ELSE <<>>)])

RECURSIVE Str(_)
\* __str__ of every node class
Str(n) ==
    CASE n.kind = "Block" -> n.text
      [] n.kind = "BlockList" -> JoinNL([i \in 1..Len(n.items) |-> Str(n.items[i])])
      [] n.kind = "CommentBlock" -> n.comment \o Str(n.child)
      [] n.kind = "DirectiveBlock" -> <<n.start>> \o Str(n.child) \o n.end
      [] OTHER -> EmptyStr

\* Makefile.__str__ / Makefile.dumps
dumps(mk) == JoinNL([i \in 1..Len(mk) |-> Str(mk[i])])

----------------------------------------------------------------------------
(* Step 1: _split_directives.                                              *)

\* start_directives without ifdef
start_directives_no_ifdef ==
    << <<"i","f","e","q">>, <<"i","f","n","e","q">>, <<"i","f","n","d","e","f">> >>

start_directives ==
    << <<"i","f","e","q">>, <<"i","f","n","e","q">>,
       <<"i","f","d","e","f">>, <<"i","f","n","d","e","f">> >>

end_directives == << <<"e","n","d","i","f">> >>

is_start_line(line) == startswith_any(lstrip(line), start_directives)

is_end_line(line) == startswith_any(lstrip(line), end_directives)

\* the nested add_current of _split_directives
add_current(blocks, current) ==
    IF current # <<>> THEN Append(blocks, Block(current)) ELSE blocks

RECURSIVE _split_directives_loop(_, _, _, _)
\* the for loop of _split_directives over the shared line iterator: the
\* result is the returned (blocks, end) and the lines left in the iterator
_split_directives_loop(lines, in_scope, blocks, current) ==
    IF lines = <<>>
    THEN [blocks |-> add_current(blocks, current), end |-> <<>>, rest |-> <<>>]
    ELSE LET line == Head(lines) IN
         IF is_start_line(line)
         THEN With(_split_directives_loop(Tail(lines), TRUE, <<>>, <<>>), LAMBDA inner :
                  _split_directives_loop(inner.rest, in_scope,
                      Append(add_current(blocks, current),
                             DirectiveBlock(line, inner.end, BlockList(inner.blocks))),
                      <<>>))
         ELSE IF in_scope /\ is_end_line(line)
         THEN [blocks |-> add_current(blocks, current), end |-> <<line>>,
               rest |-> Tail(lines)]
         ELSE _split_directives_loop(Tail(lines), in_scope, blocks, Append(current, line))

_split_directives(lines, in_scope) == _split_directives_loop(lines, in_scope, <<>>, <<>>)

----------------------------------------------------------------------------
(* Step 2: _split_comments.  The pattern of create_pattern is matched a    *)
(* line at a time: "(?m)^" anchors a match at the start of a line, {nl}    *)
(* is the boundary between two lines, and the pieces that hold no {nl}     *)
(* ({sp}*, {sep}, one title line) are matched on the characters of one     *)
(* line.  The inputs hold no "\r" and no line that continues the \s+ of a  *)
(* separator, so \s+ is matched within its line.                           *)

sp == {" ", "\t"}

\* what [\x00-\x08\x0A-\x1F] excludes from a title line, as far as a TLA+
\* string can name it
ControlChars == {"\n", "\r", "\f"}

\* the first index >= i of line whose character is outside set (greedy x*)
SkipRun(line, i, set) ==
    IF i > Len(line) THEN i
    ELSE CHOOSE j \in i..(Len(line) + 1) :
             /\ (j > Len(line) \/ line[j] \notin set)
             /\ \A k \in i..(j - 1) : line[k] \in set

\* the least count of "=" or "-" in sep1 and sep2: ={5,} and -{5,}
MinSepRule == 5

\* the least count of "#" in sep3: #{6,}
MinSepHash == 6

\* sep1 = #\s+={5,}, sep2 = #\s+-{5,}, sep3 = #{6,}, in the order create_pattern
\* is given them
Seps == <<"sep1", "sep2", "sep3">>

\* the number of characters of line that {sp}*{sep} matches from its start,
\* greedily; 0 when it does not match
SepEnd(sep, line) ==
    With(SkipRun(line, 1, sp), LAMBDA h :
        IF ~(h <= Len(line) /\ line[h] = "#") THEN 0
        ELSE IF sep = "sep3"
        THEN With(SkipRun(line, h, {"#"}), LAMBDA e :
                 IF e - h >= MinSepHash THEN e - 1 ELSE 0)
        ELSE With(SkipRun(line, h + 1, sp), LAMBDA s :
                 With(SkipRun(line, s, {IF sep = "sep1" THEN "=" ELSE "-"}), LAMBDA e :
                     IF s > h + 1 /\ e - s >= MinSepRule THEN e - 1 ELSE 0)))

\* {sp}*{sep}{nl}: the separator is all of its line
FullSepLine(sep, line) == SepEnd(sep, line) = Len(line) /\ Len(line) > 0

\* line = {sp}*#{sp}*{comment} up to the end of its line
IsTitleLine(line) ==
    \E h \in {SkipRun(line, 1, sp)} :
        /\ h <= Len(line)
        /\ line[h] = "#"
        /\ \A i \in h..Len(line) : line[i] \notin ControlChars

RECURSIVE TitleRun(_, _)
\* how many consecutive title lines start at line i of lines
TitleRun(lines, i) ==
    IF i <= Len(lines) /\ IsTitleLine(lines[i]) THEN 1 + TitleRun(lines, i + 1) ELSE 0

NoMatch == [found |-> FALSE]

\* a match of one alternative: the header is lines first..last, of which
\* the last is matched up to column col; the title is lines tfirst..tlast
Match(first, last, col, tfirst, tlast) ==
    [found |-> TRUE, first |-> first, last |-> last, col |-> col,
     tfirst |-> tfirst, tlast |-> tlast]

Max(S) == CHOOSE x \in S : \A y \in S : y <= x

\* sandwich_pattern: {sp}*{sep}{nl}({title}){nl}{sp}*{sep}, the title
\* greedy and giving lines back until the closing separator matches
sandwich_pattern(sep, lines, i) ==
    IF ~(i < Len(lines) /\ FullSepLine(sep, lines[i])) THEN NoMatch
    ELSE With({k \in 1..TitleRun(lines, i + 1) :
                  /\ i + k + 1 <= Len(lines)
                  /\ SepEnd(sep, lines[i + k + 1]) > 0}, LAMBDA ks :
             IF ks = {} THEN NoMatch
             ELSE With(Max(ks), LAMBDA k :
                      Match(i, i + k + 1, SepEnd(sep, lines[i + k + 1]), i + 1, i + k)))

\* prefix_pattern: {sp}*{sep}{nl}({title})
prefix_pattern(sep, lines, i) ==
    IF ~(i < Len(lines) /\ FullSepLine(sep, lines[i])) THEN NoMatch
    ELSE With(TitleRun(lines, i + 1), LAMBDA k :
             IF k = 0 THEN NoMatch
             ELSE Match(i, i + k, Len(lines[i + k]), i + 1, i + k))

\* suffix_pattern: ({title}){nl}{sp}*{sep}
suffix_pattern(sep, lines, i) ==
    With({k \in 1..TitleRun(lines, i) :
             /\ i + k <= Len(lines)
             /\ SepEnd(sep, lines[i + k]) > 0}, LAMBDA ks :
        IF ks = {} THEN NoMatch
        ELSE With(Max(ks), LAMBDA k :
                 Match(i, i + k, SepEnd(sep, lines[i + k]), i, i + k - 1)))

\* a|b of a pattern: the match of a, and that of b when a does not match
Alternation(a, b) == IF a.found THEN a ELSE b

\* sep_pattern: (?:sandwich)|(?:prefix)|(?:suffix), the first that matches
sep_pattern(sep, lines, i) ==
    Alternation(sandwich_pattern(sep, lines, i),
                Alternation(prefix_pattern(sep, lines, i), suffix_pattern(sep, lines, i)))

RECURSIVE create_pattern_from(_, _, _)
create_pattern_from(s, lines, i) ==
    IF s > Len(Seps) THEN NoMatch
    ELSE Alternation(sep_pattern(Seps[s], lines, i), create_pattern_from(s + 1, lines, i))

\* create_pattern: the alternatives of sep1, then sep2, then sep3, at line i
create_pattern(lines, i) == create_pattern_from(1, lines, i)

\* where a match ends once the trailing {nl}? has matched: line and the
\* count of characters of that line before the end; col 0 is a line start
MatchEnd(lines, m) ==
    IF m.col = Len(lines[m.last]) /\ m.last < Len(lines)
    THEN [line |-> m.last + 1, col |-> 0]
    ELSE [line |-> m.last, col |-> m.col]

RECURSIVE finditer(_, _)
\* re.finditer: the matches from line i on, leftmost first, each search
\* resuming where the match before it ended
finditer(lines, i) ==
    IF i > Len(lines) THEN <<>>
    ELSE With(create_pattern(lines, i), LAMBDA m :
             IF ~m.found THEN finditer(lines, i + 1)
             ELSE With(MatchEnd(lines, m), LAMBDA e :
                      <<m>> \o finditer(lines, IF e.col = 0 THEN e.line ELSE e.line + 1)))

RECURSIVE strip_hash(_, _)
\* re.sub(r'[ \t]*#[ \t]*', '', line) from index i on
strip_hash(line, i) ==
    IF i > Len(line) THEN <<>>
    ELSE With(SkipRun(line, i, sp), LAMBDA h :
             IF h <= Len(line) /\ line[h] = "#"
             THEN strip_hash(line, SkipRun(line, h + 1, sp))
             ELSE <<line[i]>> \o strip_hash(line, i + 1))

\* match.group(1): the header as matched
match_comment(lines, m) ==
    SubSeq(lines, m.first, m.last - 1) \o <<SubSeq(lines[m.last], 1, m.col)>>

\* the title: the title lines with every "#" marker removed
match_title(lines, m) ==
    [j \in 1..(m.tlast - m.tfirst + 1) |-> strip_hash(lines[m.tfirst + j - 1], 1)]

\* contents[at:] for a position at
text_from(lines, at) ==
    <<SubSeq(lines[at.line], at.col + 1, Len(lines[at.line]))>>
        \o SubSeq(lines, at.line + 1, Len(lines))

\* the nested new_comment of _split_comments; nxt is <<>> for None, and
\* the assert on the text between two matches raises when that text is ''
new_comment(lines, m, nxt) ==
    With(MatchEnd(lines, m), LAMBDA e :
        IF nxt = <<>>
        THEN CommentBlock(match_comment(lines, m), match_title(lines, m),
                          Block(text_from(lines, e)))
        ELSE IF e.line = nxt[1].first
        THEN Raise("AssertionError")
        ELSE CommentBlock(match_comment(lines, m), match_title(lines, m),
                          Block(<<SubSeq(lines[e.line], e.col + 1, Len(lines[e.line]))>>
                                    \o SubSeq(lines, e.line + 1, nxt[1].first - 1))))

\* _split_comments: the list of blocks of one text
_split_comments(text) ==
    IF text = EmptyStr THEN <<>>
    ELSE With(finditer(text, 1), LAMBDA matches :
             IF matches = <<>> THEN <<Block(text)>>
             ELSE (IF matches[1].first # 1
                   THEN <<Block(SubSeq(text, 1, matches[1].first - 1))>>
                   ELSE <<>>)
                  \o [j \in 1..Len(matches) |->
                         new_comment(text, matches[j],
                                     IF j < Len(matches) THEN <<matches[j + 1]>> ELSE <<>>)])

RECURSIVE split_comments(_)
\* split_comments of Block, BlockList, DirectiveBlock and CommentBlock; the
\* result is the list every caller expects
split_comments(n) ==
    CASE n.kind = "Block" -> _split_comments(n.text)
      [] n.kind = "BlockList" ->
            flatten([i \in 1..Len(n.items) |-> split_comments(n.items[i])])
      [] n.kind = "DirectiveBlock" ->
            <<DirectiveBlock(n.start, n.end, BlockList(split_comments(n.child)))>>
      [] n.kind = "CommentBlock" -> <<Raise("NotImplementedError")>>
      [] OTHER -> <<n>>

----------------------------------------------------------------------------
(* Step 3: _group_comments.                                                *)

\* the nested new_comment of _group_comments: an empty body is not appended
group_new_comment(block) ==
    CommentBlock(block.comment, block.title,
                 BlockList(IF block.child.text # EmptyStr THEN <<block.child>> ELSE <<>>))

\* _group_comments with a regular block after a comment block left a
\* sibling of the comment
group_step_sibling(result, current, block) ==
    IF is_comment(current) /\ is_comment(block)
    THEN [result |-> Append(result, flatten_single(current)),
          current |-> group_new_comment(block)]
    ELSE IF is_comment(block)
    THEN [result |-> result \o current.items, current |-> group_new_comment(block)]
    ELSE IF is_comment(current)
    THEN [result |-> Append(Append(result, flatten_single(current)), block),
          current |-> BlockList(<<>>)]
    ELSE [result |-> result, current |-> BlockList(Append(current.items, block))]

\* the four branches of the loop body of _group_comments; current is a
\* node: a BlockList before the first comment, the open CommentBlock after
group_step(result, current, block) ==
    IF is_comment(current) /\ is_comment(block)
    THEN [result |-> Append(result, flatten_single(current)),
          current |-> group_new_comment(block)]
    ELSE IF is_comment(block)
    THEN [result |-> result \o current.items, current |-> group_new_comment(block)]
    ELSE IF is_comment(current)
    THEN [result |-> result, current |-> [current EXCEPT !.child.items = Append(@, block)]]
    ELSE [result |-> result, current |-> BlockList(Append(current.items, block))]

RECURSIVE group_comments(_)
RECURSIVE _group_comments_loop(_, _, _, _)

\* the for loop of _group_comments from block i on, and what follows it
_group_comments_loop(blocks, i, result, current) ==
    IF i > Len(blocks)
    THEN IF is_comment(current)
         THEN Append(result, flatten_single(current))
         ELSE result \o current.items
    ELSE IF (is_comment(blocks[i]) /\ ~is_block(blocks[i].child)) \/ is_block_list(blocks[i])
         THEN Append(result, Raise("AssertionError"))
         ELSE With(group_step(result, current,
                              IF is_comment(blocks[i]) THEN blocks[i]
                              ELSE group_comments(blocks[i])), LAMBDA step :
                  _group_comments_loop(blocks, i + 1, step.result, step.current))

_group_comments(blocks) == _group_comments_loop(blocks, 1, <<>>, BlockList(<<>>))

\* group_comments of Block, BlockList, DirectiveBlock and CommentBlock: the
\* node as the call leaves it
group_comments(n) ==
    CASE n.kind = "Block" -> n
      [] n.kind = "BlockList" -> BlockList(_group_comments(n.items))
      [] n.kind = "DirectiveBlock" ->
            With(group_comments(n.child), LAMBDA c :
                IF is_raise(c) THEN c ELSE flatten_single([n EXCEPT !.child = c]))
      [] n.kind = "CommentBlock" -> Raise("NotImplementedError")
      [] OTHER -> n

RECURSIVE Raised(_)
\* the exceptions raised while a node was built, in the order of the nodes
Raised(n) ==
    CASE n.kind = "Raise" -> <<n.error>>
      [] n.kind = "BlockList" -> flatten([i \in 1..Len(n.items) |-> Raised(n.items[i])])
      [] n.kind \in {"CommentBlock", "DirectiveBlock"} -> Raised(n.child)
      [] OTHER -> <<>>

\* Makefile.loads: the three steps; an exception of a step ends the call
loads(text) ==
    With(BlockList(split_comments(
             BlockList(_split_directives(splitlines(text), FALSE).blocks))), LAMBDA blocks :
        IF Raised(blocks) # <<>>
        THEN [error |-> Head(Raised(blocks)), makefile |-> <<>>]
        ELSE With(group_comments(blocks), LAMBDA grouped :
                 IF Raised(grouped) # <<>>
                 THEN [error |-> Head(Raised(grouped)), makefile |-> <<>>]
                 ELSE [error |-> "", makefile |-> grouped.items]))

----------------------------------------------------------------------------
(* util.py: classification of a name.  A name is a sequence of            *)
(* characters; a multi-line title is flattened with "\n" between lines.    *)

UpperCase ==
    <<"A","B","C","D","E","F","G","H","I","J","K","L","M",
      "N","O","P","Q","R","S","T","U","V","W","X","Y","Z">>

LowerCase ==
    <<"a","b","c","d","e","f","g","h","i","j","k","l","m",
      "n","o","p","q","r","s","t","u","v","w","x","y","z">>

Digits == {"0","1","2","3","4","5","6","7","8","9"}

Range(f) == {f[i] : i \in DOMAIN f}

\* [A-Za-z0-9]
IsAlnum(c) == c \in Range(UpperCase) \cup Range(LowerCase) \cup Digits

\* str.lower() of one character
LowerChar(c) ==
    IF c \in Range(UpperCase)
    THEN LowerCase[CHOOSE i \in DOMAIN UpperCase : UpperCase[i] = c]
    ELSE c

lower(name) == [i \in DOMAIN name |-> LowerChar(name[i])]

\* sub in name
contains(name, sub) ==
    \E i \in 1..(Len(name) - Len(sub) + 1) : SubSeq(name, i, i + Len(sub) - 1) = sub

RECURSIVE Chars(_)
\* the characters of a string, its lines joined by "\n"
Chars(str) ==
    IF Len(str) = 1 THEN str[1] ELSE str[1] \o <<"\n">> \o Chars(Tail(str))

\* re.search(r'(?i)(?:^|[^A-Za-z0-9]|g)word', name) when g, and
\* re.search(r'(?i)(?:^|[^A-Za-z0-9])word', name) when not
token_match(name, word, g) ==
    \E i \in 1..(Len(name) - Len(word) + 1) :
        /\ lower(SubSeq(name, i, i + Len(word) - 1)) = word
        /\ \/ i = 1
           \/ ~IsAlnum(name[i - 1])
           \/ g /\ LowerChar(name[i - 1]) = "g"

\* util.is_test whose pattern is (?:^|[^A-Za-z0-9])test, without the g
util_is_test_without_g(name) ==
    IF contains(lower(name), <<"n","o","n","-","t","e","s","t">>) THEN FALSE
    ELSE token_match(name, <<"t","e","s","t">>, FALSE)

\* util.is_test
util_is_test(name) ==
    IF contains(lower(name), <<"n","o","n","-","t","e","s","t">>) THEN FALSE
    ELSE token_match(name, <<"t","e","s","t">>, TRUE)

\* util.is_benchmark whose pattern has the g of that of util.is_test
util_is_benchmark_with_g(name) ==
    token_match(name, <<"b","e","n","c","h","m","a","r","k">>, TRUE)

\* util.is_benchmark
util_is_benchmark(name) ==
    token_match(name, <<"b","e","n","c","h","m","a","r","k">>, FALSE)

\* Node.is_test, overridden by CommentBlock.is_test alone; a title parsed
\* from text is never None
is_test(n) == is_comment(n) /\ util_is_test(Chars(n.title))

\* Node.is_benchmark, overridden by CommentBlock.is_benchmark alone
is_benchmark(n) == is_comment(n) /\ util_is_benchmark(Chars(n.title))

\* Node.is_dev
is_dev(n) == is_test(n) \/ is_benchmark(n)

----------------------------------------------------------------------------
(* filter.  A predicate is named: "not_dev" is the one remove-tests        *)
(* passes, lambda x: not x.is_dev(); the others reject a kind of node or   *)
(* nothing, and depend on the node's own attributes alone.                 *)

Predicates == {"not_dev", "not_directive", "not_block", "always"}

\* op(node)
Apply(p, n) ==
    CASE p = "not_dev" -> ~is_dev(n)
      [] p = "not_directive" -> ~is_directive(n)
      [] p = "not_block" -> ~is_block(n)
      [] p = "always" -> TRUE

RECURSIVE filter(_, _)
RECURSIVE _filter_list(_, _)

\* filter that asks op of a CommentBlock or DirectiveBlock and leaves its
\* child as it is
filter_own_only(n, p) ==
    CASE n.kind = "Block" -> [keep |-> Apply(p, n), node |-> n]
      [] n.kind = "BlockList" ->
            LET items == _filter_list(n.items, p) IN
            [keep |-> items # <<>>, node |-> BlockList(items)]
      [] OTHER -> [keep |-> Apply(p, n), node |-> n]

RECURSIVE Kept(_)
\* [i for i in lst if ...]: the nodes of the results r that are kept
Kept(r) ==
    IF r = <<>> THEN <<>>
    ELSE (IF Head(r).keep THEN <<Head(r).node>> ELSE <<>>) \o Kept(Tail(r))

\* _filter_list: the list as the slice assignment leaves it
_filter_list(lst, p) == Kept([i \in 1..Len(lst) |-> filter(lst[i], p)])

\* filter that keeps a CommentBlock or DirectiveBlock op holds for,
\* whatever is left of its child
filter_keeps_emptied(n, p) ==
    CASE n.kind = "Block" -> [keep |-> Apply(p, n), node |-> n]
      [] n.kind = "BlockList" ->
            With(_filter_list(n.items, p), LAMBDA items :
                [keep |-> items # <<>>, node |-> BlockList(items)])
      [] OTHER ->
            IF ~Apply(p, n) THEN [keep |-> FALSE, node |-> n]
            ELSE With(filter(n.child, p), LAMBDA c :
                     [keep |-> TRUE, node |-> [n EXCEPT !.child = c.node]])

\* filter of Block, BlockList, CommentBlock and DirectiveBlock: keep is the
\* truth of what the call returns, node is the node as the call leaves it.
\* "op(self) and self.child.filter(op)" does not reach the child when op
\* rejects the node, and a list is true when it is not empty
filter(n, p) ==
    CASE n.kind = "Block" -> [keep |-> Apply(p, n), node |-> n]
      [] n.kind = "BlockList" ->
            With(_filter_list(n.items, p), LAMBDA items :
                [keep |-> items # <<>>, node |-> BlockList(items)])
      [] OTHER ->
            IF ~Apply(p, n) THEN [keep |-> FALSE, node |-> n]
            ELSE With(filter(n.child, p), LAMBDA c :
                     [keep |-> c.keep, node |-> [n EXCEPT !.child = c.node]])

----------------------------------------------------------------------------
(* soong.py: the blueprint lexer.  A blueprint text is a sequence of       *)
(* characters, "\n" among them.  A token is its type and the characters    *)
(* it matched.  Each pattern gives the index after its match at i, or 0.   *)

Letters == Range(UpperCase) \cup Range(LowerCase)

\* ignore = ' \t'
ignore == {" ", "\t"}

\* text holds the characters of word at index i
StartsAt(text, i, word) ==
    i + Len(word) - 1 <= Len(text) /\ SubSeq(text, i, i + Len(word) - 1) = word

\* the first index >= i at which text holds the characters of word, or 0
FindFrom(text, i, word) ==
    IF \E j \in i..Len(text) : StartsAt(text, j, word)
    THEN CHOOSE j \in i..Len(text) :
             /\ StartsAt(text, j, word)
             /\ \A k \in i..(j - 1) : ~StartsAt(text, k, word)
    ELSE 0

\* _SINGLELINE_COMMENT = \/\/.* : "." stops before a "\n"
match_singleline_comment(text, i) ==
    IF StartsAt(text, i, <<"/", "/">>)
    THEN LET n == FindFrom(text, i + 2, <<"\n">>) IN
         IF n = 0 THEN Len(text) + 1 ELSE n
    ELSE 0

\* _MULTILINE_COMMENT = \/\*[\u0000-\U0010FFFF]*?\*\/ : up to the first "*/"
match_multiline_comment(text, i) ==
    IF StartsAt(text, i, <<"/", "*">>)
    THEN LET n == FindFrom(text, i + 2, <<"*", "/">>) IN
         IF n = 0 THEN 0 ELSE n + 2
    ELSE 0

\* ignore_comment = _COMMENT
match_comment_token(text, i) ==
    LET a == match_singleline_comment(text, i) IN
    IF a # 0 THEN a ELSE match_multiline_comment(text, i)

\* the characters a backslash may not stand before in a string:
\* [^\r\n\f0-9a-f], and "\n", which \\{_NL} lets it stand before
NoEscape == {"\r", "\f"} \cup Digits \cup {"a", "b", "c", "d", "e", "f"}

\* the first index >= i of text whose character is in set, Len(text) + 1
\* when there is none
SkipTo(text, i, set) ==
    IF i > Len(text) THEN i
    ELSE CHOOSE j \in i..(Len(text) + 1) :
             /\ (j > Len(text) \/ text[j] \in set)
             /\ \A k \in i..(j - 1) : text[k] \notin set

RECURSIVE string_body(_, _)
\* the index after the closing quote of a string whose body goes on at i:
\* the characters [^\n\r\f\\"] are passed over as a run, j is the first
\* that is none of them ("\f" is passed over with them, as \f alone is)
string_body(text, i) ==
    With(SkipTo(text, i, {"\"", "\\", "\r", "\n"}), LAMBDA j :
        IF j > Len(text) THEN 0
        ELSE IF text[j] = "\"" THEN j + 1
        ELSE IF text[j] = "\\"
        THEN IF j + 1 <= Len(text) /\ text[j + 1] \notin NoEscape
             THEN string_body(text, j + 2)
             ELSE 0
        ELSE IF text[j] = "\r" /\ j + 1 <= Len(text) /\ text[j + 1] = "\n"
        THEN string_body(text, j + 2)
        ELSE IF text[j] = "\n" THEN 0
        ELSE string_body(text, j + 1))

\* STRING = "([^\n\r\f\\"]|\\\n|\r\n|\r|\f|...|\\[^\r\n\f0-9a-f])*"
match_STRING(text, i) == IF text[i] = "\"" THEN string_body(text, i + 1) ELSE 0

\* INTEGER = \d+
match_INTEGER(text, i) == IF text[i] \in Digits THEN SkipRun(text, i, Digits) ELSE 0

\* BOOL = (?:true)|(?:false)
match_BOOL(text, i) ==
    IF StartsAt(text, i, <<"t","r","u","e">>) THEN i + 4
    ELSE IF StartsAt(text, i, <<"f","a","l","s","e">>) THEN i + 5
    ELSE 0

\* IDENT = [a-zA-Z_][a-zA-Z0-9_]*
match_IDENT(text, i) ==
    IF text[i] \in Letters \cup {"_"}
    THEN SkipRun(text, i, Letters \cup Digits \cup {"_"})
    ELSE 0

\* the one-character tokens
Punctuation ==
    [type : {"LBRACKET"}, char : {"["}] \cup [type : {"RBRACKET"}, char : {"]"}]
    \cup [type : {"LBRACE"}, char : {"{"}] \cup [type : {"RBRACE"}, char : {"}"}]
    \cup [type : {"COLON"}, char : {":"}] \cup [type : {"COMMA"}, char : {","}]
    \cup [type : {"EQUALS"}, char : {"="}] \cup [type : {"PLUS"}, char : {"+"}]

\* the master pattern: the rules in the order the class defines them, the
\* first that matches at i; type "" when none does
match_token(text, i) ==
    With([ignore_comment |-> match_comment_token(text, i),
          STRING |-> match_STRING(text, i),
          INTEGER |-> match_INTEGER(text, i),
          BOOL |-> match_BOOL(text, i),
          IDENT |-> match_IDENT(text, i)], LAMBDA end :
        IF end.ignore_comment # 0 THEN [type |-> "ignore_comment", end |-> end.ignore_comment]
        ELSE IF end.STRING # 0 THEN [type |-> "STRING", end |-> end.STRING]
        ELSE IF end.INTEGER # 0 THEN [type |-> "INTEGER", end |-> end.INTEGER]
        ELSE IF end.BOOL # 0 THEN [type |-> "BOOL", end |-> end.BOOL]
        ELSE IF end.IDENT # 0 THEN [type |-> "IDENT", end |-> end.IDENT]
        ELSE IF \E t \in Punctuation : t.char = text[i]
        THEN [type |-> (CHOOSE t \in Punctuation : t.char = text[i]).type, end |-> i + 1]
        ELSE IF text[i] = "\n" THEN [type |-> "newline", end |-> SkipRun(text, i, {"\n"})]
        ELSE [type |-> "", end |-> 0])

IllegalCharacter ==
    <<"I","l","l","e","g","a","l"," ","c","h","a","r","a","c","t","e","r"," ">>

\* the message of the ValueError Lexer.error raises for the text that is
\* left at the character: f"Illegal character '{token.value[0]}'"
Lexer_error(value) == IllegalCharacter \o <<"'", value[1], "'">>

\* the loop of Lexer.tokenize has come to its end in st: past the last
\* character, or at a character Lexer.error raised for
tokenize_done(text, st) == st.illegal # 0 \/ st.index > Len(text)

\* one round of the loop of Lexer.tokenize, on st = [tokens, index,
\* illegal]: illegal is the index of the character Lexer.error raised for,
\* 0 while there is none
tokenize_round(text, st) ==
    IF tokenize_done(text, st) THEN st
    ELSE IF text[st.index] \in ignore THEN [st EXCEPT !.index = @ + 1]
    ELSE With(match_token(text, st.index), LAMBDA m :
             IF m.type = "" THEN [st EXCEPT !.illegal = st.index]
             ELSE IF m.type \in {"ignore_comment", "newline"}
             THEN [st EXCEPT !.index = m.end]
             ELSE [st EXCEPT !.index = m.end,
                             !.tokens = Append(@, [type |-> m.type,
                                                   value |-> SubSeq(text, st.index,
                                                                    m.end - 1)])])

RECURSIVE tokenize_rounds(_, _, _)
\* n >= 1 rounds of the loop: the first half of them, and then the others
tokenize_rounds(text, st, n) ==
    IF n = 1 THEN tokenize_round(text, st)
    ELSE With(tokenize_rounds(text, st, n \div 2), LAMBDA half :
             IF tokenize_done(text, half) THEN half
             ELSE tokenize_rounds(text, half, n - (n \div 2)))

\* Lexer.tokenize: every round takes at least one character, so that
\* Len(text) rounds come to the end of the loop
tokenize(text) ==
    With([tokens |-> <<>>, index |-> 1, illegal |-> 0], LAMBDA st :
        IF text = <<>> THEN st ELSE tokenize_rounds(text, st, Len(text)))

----------------------------------------------------------------------------
(* soong.py: the nodes of a blueprint tree, and the parser.  An Ident name *)
(* or key is its characters; a String keeps its quotes, as str does.       *)

Ident(value) == [kind |-> "Ident", value |-> value]

String(value) == [kind |-> "String", value |-> value]

Integer(value) == [kind |-> "Integer", value |-> value]

Bool(value) == [kind |-> "Bool", value |-> value]

List(items) == [kind |-> "List", items |-> items]

\* a dict in insertion order: items[i] = [key, value], value a MapValue
Map(items) == [kind |-> "Map", items |-> items]

\* a MapValue that holds the other delimiter than the one it was written with
MapValue_swapped(delimiter, value) ==
    [kind |-> "MapValue",
     delimiter |-> IF delimiter = <<"=">> THEN <<":">> ELSE <<"=">>,
     value |-> value]

MapValue(delimiter, value) == [kind |-> "MapValue", delimiter |-> delimiter, value |-> value]

BinaryOperator(lhs, o, rhs) == [kind |-> "BinaryOperator", lhs |-> lhs, op |-> o, rhs |-> rhs]

Assignment(name, expr) == [kind |-> "Assignment", name |-> name, expr |-> expr]

BinaryOperatorAssignment(name, o, expr) ==
    [kind |-> "BinaryOperatorAssignment", name |-> name, op |-> o, expr |-> expr]

Scope(name, map) == [kind |-> "Scope", name |-> name, map |-> map]

DigitChars == <<"0","1","2","3","4","5","6","7","8","9">>

DigitValue(c) == (CHOOSE i \in DOMAIN DigitChars : DigitChars[i] = c) - 1

RECURSIVE int(_)
\* int('007') = 7
int(digits) ==
    IF digits = <<>> THEN 0
    ELSE int(Front(digits)) * Len(DigitChars) + DigitValue(Last(digits))

RECURSIVE decimal(_)
\* str(int(self))
decimal(n) ==
    IF n < Len(DigitChars) THEN <<DigitChars[n + 1]>>
    ELSE decimal(n \div Len(DigitChars)) \o <<DigitChars[(n % Len(DigitChars)) + 1]>>

\* json.loads('true'), json.loads('false')
json_loads(word) == word = <<"t","r","u","e">>

\* json.dumps(True), json.dumps(False)
json_dumps(b) == IF b THEN <<"t","r","u","e">> ELSE <<"f","a","l","s","e">>

RECURSIVE dict(_)
\* dict(pairs): a later pair with a key already there takes the place of
\* the earlier pair's value and leaves the key where it was
dict(pairs) ==
    IF pairs = <<>> THEN <<>>
    ELSE With(dict(Front(pairs)), LAMBDA d :
             IF \E i \in DOMAIN d : d[i].key = Last(pairs).key
             THEN [i \in DOMAIN d |-> IF d[i].key = Last(pairs).key THEN Last(pairs) ELSE d[i]]
             ELSE Append(d, Last(pairs)))

\* the type of the token at i, "$end" after the last
lookahead(tokens, i) == IF i <= Len(tokens) THEN tokens[i].type ELSE "$end"

\* a production reduced to node, the next token at pos
Reduced(node, pos) == [ok |-> TRUE, node |-> node, pos |-> pos]

\* Parser.error at the token at pos
SyntaxError(pos) == [ok |-> FALSE, node |-> <<>>, pos |-> pos]

\* the symbols of a production in their order: what follows the symbol
\* reduced as a, or the error that a is
Then(a, Follow(_)) == IF a.ok THEN Follow(a) ELSE a

RECURSIVE expr(_, _)
RECURSIVE binary_operator(_, _, _)
RECURSIVE map(_, _)
RECURSIVE pairs(_, _, _)
RECURSIVE pair(_, _)
RECURSIVE list(_, _)
RECURSIVE sequence(_, _, _)
RECURSIVE list_item(_, _)
RECURSIVE list_item_plus(_, _, _)

\* ident | map | list | string | integer | bool, the operands of "+"
operand(tokens, i) ==
    LET t == lookahead(tokens, i) IN
    CASE t = "IDENT" -> Reduced(Ident(tokens[i].value), i + 1)
      [] t = "STRING" -> Reduced(String(tokens[i].value), i + 1)
      [] t = "INTEGER" -> Reduced(Integer(int(tokens[i].value)), i + 1)
      [] t = "BOOL" -> Reduced(Bool(json_loads(tokens[i].value)), i + 1)
      [] t = "LBRACE" -> map(tokens, i)
      [] t = "LBRACKET" -> list(tokens, i)
      [] OTHER -> SyntaxError(i)

\* expr, with binary_operator : expr PLUS expr and precedence ('left', PLUS)
expr(tokens, i) ==
    Then(operand(tokens, i), LAMBDA a : binary_operator(tokens, a.pos, a.node))

\* binary_operator with precedence ('right', PLUS): a PLUS takes all that
\* follows it as its right operand
binary_operator_right(tokens, i, lhs) ==
    IF lookahead(tokens, i) = "PLUS"
    THEN Then(expr(tokens, i + 1), LAMBDA b :
             Reduced(BinaryOperator(lhs, tokens[i].value, b.node), b.pos))
    ELSE Reduced(lhs, i)

\* lhs has been reduced: each PLUS takes one more operand, to the left
binary_operator(tokens, i, lhs) ==
    IF lookahead(tokens, i) = "PLUS"
    THEN Then(operand(tokens, i + 1), LAMBDA b :
             binary_operator(tokens, b.pos, BinaryOperator(lhs, tokens[i].value, b.node)))
    ELSE Reduced(lhs, i)

\* pair : ident COLON expr | ident EQUALS expr
pair(tokens, i) ==
    IF lookahead(tokens, i) # "IDENT" THEN SyntaxError(i)
    ELSE IF lookahead(tokens, i + 1) \notin {"COLON", "EQUALS"} THEN SyntaxError(i + 1)
    ELSE Then(expr(tokens, i + 2), LAMBDA e :
             Reduced([key |-> tokens[i].value,
                      value |-> MapValue(tokens[i + 1].value, e.node)], e.pos))

\* pairs : pairs COMMA pair | pair, up to the RBRACE of the map
pairs(tokens, i, before) ==
    Then(pair(tokens, i), LAMBDA p :
        LET all == Append(before, p.node)
            t == lookahead(tokens, p.pos)
        IN CASE t = "RBRACE" -> Reduced(Map(dict(all)), p.pos + 1)
             [] t = "COMMA" ->
                   IF lookahead(tokens, p.pos + 1) = "RBRACE"
                   THEN Reduced(Map(dict(all)), p.pos + 2)
                   ELSE pairs(tokens, p.pos + 1, all)
             [] OTHER -> SyntaxError(p.pos))

\* map : LBRACE pairs RBRACE | LBRACE pairs COMMA RBRACE | LBRACE RBRACE
map(tokens, i) ==
    IF lookahead(tokens, i + 1) = "RBRACE" THEN Reduced(Map(<<>>), i + 2)
    ELSE pairs(tokens, i + 1, <<>>)

\* string | ident | map, the operands of "+" in a list
list_operand(tokens, i) ==
    LET t == lookahead(tokens, i) IN
    CASE t = "STRING" -> Reduced(String(tokens[i].value), i + 1)
      [] t = "IDENT" -> Reduced(Ident(tokens[i].value), i + 1)
      [] t = "LBRACE" -> map(tokens, i)
      [] OTHER -> SyntaxError(i)

\* list_item : list_item PLUS list_item | string | ident | map
list_item(tokens, i) ==
    Then(list_operand(tokens, i), LAMBDA a : list_item_plus(tokens, a.pos, a.node))

\* list_item PLUS list_item with PLUS grouping to the right
list_item_plus_right(tokens, i, lhs) ==
    IF lookahead(tokens, i) = "PLUS"
    THEN Then(list_item(tokens, i + 1), LAMBDA b :
             Reduced(BinaryOperator(lhs, <<"+">>, b.node), b.pos))
    ELSE Reduced(lhs, i)

\* a list_item has been reduced as lhs: each PLUS takes one more string,
\* ident or map, to the left
list_item_plus(tokens, i, lhs) ==
    IF lookahead(tokens, i) = "PLUS"
    THEN Then(list_operand(tokens, i + 1), LAMBDA b :
             list_item_plus(tokens, b.pos, BinaryOperator(lhs, <<"+">>, b.node)))
    ELSE Reduced(lhs, i)

\* sequence : sequence COMMA list_item | list_item, up to the RBRACKET
sequence(tokens, i, before) ==
    Then(list_item(tokens, i), LAMBDA e :
        LET all == Append(before, e.node)
            t == lookahead(tokens, e.pos)
        IN CASE t = "RBRACKET" -> Reduced(List(all), e.pos + 1)
             [] t = "COMMA" ->
                   IF lookahead(tokens, e.pos + 1) = "RBRACKET"
                   THEN Reduced(List(all), e.pos + 2)
                   ELSE sequence(tokens, e.pos + 1, all)
             [] OTHER -> SyntaxError(e.pos))

\* list : LBRACKET sequence RBRACKET | LBRACKET sequence COMMA RBRACKET
\*      | LBRACKET RBRACKET
list(tokens, i) ==
    IF lookahead(tokens, i + 1) = "RBRACKET" THEN Reduced(List(<<>>), i + 2)
    ELSE sequence(tokens, i + 1, <<>>)

\* rule : assignment | binary_operator_assignment | scope
rule(tokens, i) ==
    IF lookahead(tokens, i) # "IDENT" THEN SyntaxError(i)
    ELSE LET name == tokens[i].value
             t == lookahead(tokens, i + 1)
         IN CASE t = "EQUALS" ->
                    Then(expr(tokens, i + 2), LAMBDA e :
                        Reduced(Assignment(name, e.node), e.pos))
              [] t = "PLUS" ->
                    IF lookahead(tokens, i + 2) # "EQUALS" THEN SyntaxError(i + 2)
                    ELSE Then(expr(tokens, i + 3), LAMBDA e :
                             Reduced(BinaryOperatorAssignment(name,
                                 tokens[i + 1].value \o tokens[i + 2].value, e.node), e.pos))
              [] t = "LBRACE" ->
                    Then(map(tokens, i + 1), LAMBDA m : Reduced(Scope(name, m.node), m.pos))
              [] OTHER -> SyntaxError(i + 1)

RECURSIVE rules(_, _, _)
\* ast : rules | empty, with rules : rules rule | rule
rules(tokens, i, before) ==
    IF i > Len(tokens) THEN Reduced(before, i)
    ELSE Then(rule(tokens, i), LAMBDA r : rules(tokens, r.pos, Append(before, r.node)))

\* Ast.loads: the parser draws the tokens one at a time, so that it raises
\* for a token before the lexer comes to a character it cannot match
Ast_loads(text) ==
    With(tokenize(text), LAMBDA lexed :
        With(rules(lexed.tokens, 1, <<>>), LAMBDA parsed :
            IF ~parsed.ok /\ parsed.pos <= Len(lexed.tokens)
            THEN [error |-> "ValueError", message |-> "Illegal token",
                  at |-> lexed.tokens[parsed.pos].value, ast |-> <<>>]
            ELSE IF lexed.illegal # 0
            THEN [error |-> "ValueError", message |-> "Illegal character",
                  at |-> <<text[lexed.illegal]>>, ast |-> <<>>]
            ELSE IF ~parsed.ok
            THEN [error |-> "ValueError", message |-> "Illegal token",
                  at |-> <<>>, ast |-> <<>>]
            ELSE [error |-> "", message |-> "", at |-> <<>>, ast |-> parsed.node]))

----------------------------------------------------------------------------
(* soong.py: serialization, equality, classification and filters.          *)

RECURSIVE Join(_, _)
\* sep.join(strs) on sequences of characters
Join(strs, sep) ==
    IF strs = <<>> THEN <<>>
    ELSE IF Len(strs) = 1 THEN strs[1]
    ELSE strs[1] \o sep \o Join(Tail(strs), sep)

\* _indent(indent, depth): ' ' * indent * depth
_indent(indent, depth) == [i \in 1..(indent * depth) |-> " "]

\* String.__str__: the characters between the quotes
String_str(n) == SubSeq(n.value, 2, Len(n.value) - 1)

\* String.to_str that returns str(self), the characters without their quotes
String_to_str_unquoted(n) == String_str(n)

\* String.to_str: the characters with their quotes
String_to_str(n) == n.value

\* the rows of a pretty Map or List indented as the closing bracket is
rows_at_depth(strs, indent, depth) ==
    [i \in DOMAIN strs |-> _indent(indent, depth) \o strs[i] \o <<",", "\n">>]

\* the rows of a pretty Map or List: each of strs indented one level
\* deeper, with ",\n" after it
rows(strs, indent, depth) ==
    [i \in DOMAIN strs |-> _indent(indent, depth + 1) \o strs[i] \o <<",", "\n">>]

RECURSIVE to_str(_, _, _, _)
\* to_str(pretty, indent, depth) of every node class
to_str(n, pretty, indent, depth) ==
    CASE n.kind = "Ident" -> n.value
      [] n.kind = "String" -> String_to_str(n)
      [] n.kind = "Integer" -> decimal(n.value)
      [] n.kind = "Bool" -> json_dumps(n.value)
      [] n.kind = "MapValue" ->
            (IF n.delimiter = <<"=">> THEN <<" ", "=", " ">> ELSE <<":", " ">>)
            \o to_str(n.value, pretty, indent, depth)
      [] n.kind = "BinaryOperator" ->
            to_str(n.lhs, pretty, indent, depth) \o <<" ">> \o n.op \o <<" ">>
            \o to_str(n.rhs, pretty, indent, depth)
      [] n.kind = "Assignment" ->
            n.name \o <<" ", "=", " ">> \o to_str(n.expr, pretty, indent, depth)
      [] n.kind = "BinaryOperatorAssignment" ->
            n.name \o <<" ">> \o n.op \o <<" ">> \o to_str(n.expr, pretty, indent, depth)
      [] n.kind = "Scope" ->
            n.name \o <<" ">> \o to_str(n.map, pretty, indent, depth)
      [] n.kind = "Map" ->
            With([i \in DOMAIN n.items |->
                     n.items[i].key
                     \o to_str(n.items[i].value, pretty, indent, depth + 1)], LAMBDA strs :
                IF Len(n.items) = 0 THEN <<"{", "}">>
                ELSE IF pretty
                THEN <<"{", "\n">> \o flatten(rows(strs, indent, depth))
                     \o _indent(indent, depth) \o <<"}">>
                ELSE <<"{">> \o Join(strs, <<",", " ">>) \o <<"}">>)
      [] n.kind = "List" ->
            With([i \in DOMAIN n.items |->
                     IF n.items[i].kind = "Map"
                     THEN to_str(n.items[i], pretty, indent, depth)
                     ELSE to_str(n.items[i], pretty, indent, depth + 1)], LAMBDA strs :
                IF Len(n.items) <= 1 \/ ~pretty
                THEN <<"[">> \o Join(strs, <<",", " ">>) \o <<"]">>
                ELSE <<"[", "\n">> \o flatten(rows(strs, indent, depth))
                     \o _indent(indent, depth) \o <<"]">>)

\* Ast.to_str
Ast_to_str(rs, pretty, indent) ==
    Join([i \in DOMAIN rs |-> to_str(rs[i], pretty, indent, 0)], <<"\n">>)

\* Ast.dumps
Ast_dumps(rs, pretty, indent) == Ast_to_str(rs, pretty, indent)

\* the default indent of dumps and dump
DefaultIndent == 4

RECURSIVE __eq__(_, _)
\* __eq__ of the node classes, on two nodes of one class: a String by what
\* is between its quotes, a MapValue whatever its delimiter, a Map as a
\* dict, whatever the order of its keys.  Nodes of two classes are not
\* equal (Python answers False or raises AttributeError for them).
__eq__(a, b) ==
    IF a.kind # b.kind THEN FALSE
    ELSE CASE a.kind = "Ident" -> a.value = b.value
           [] a.kind = "String" -> String_str(a) = String_str(b)
           [] a.kind = "Integer" -> a.value = b.value
           [] a.kind = "Bool" -> a.value = b.value
           [] a.kind = "MapValue" -> __eq__(a.value, b.value)
           [] a.kind = "BinaryOperator" ->
                 __eq__(a.lhs, b.lhs) /\ a.op = b.op /\ __eq__(a.rhs, b.rhs)
           [] a.kind = "Assignment" -> a.name = b.name /\ __eq__(a.expr, b.expr)
           [] a.kind = "BinaryOperatorAssignment" ->
                 a.name = b.name /\ a.op = b.op /\ __eq__(a.expr, b.expr)
           [] a.kind = "Scope" -> a.name = b.name /\ __eq__(a.map, b.map)
           [] a.kind = "List" ->
                 /\ Len(a.items) = Len(b.items)
                 /\ \A i \in DOMAIN a.items : __eq__(a.items[i], b.items[i])
           [] a.kind = "Map" ->
                 /\ Len(a.items) = Len(b.items)
                 /\ \A i \in DOMAIN a.items : \E j \in DOMAIN b.items :
                       /\ a.items[i].key = b.items[j].key
                       /\ __eq__(a.items[i].value, b.items[j].value)

\* list.__eq__ of two Ast
Ast_eq(a, b) == Len(a) = Len(b) /\ \A i \in DOMAIN a : __eq__(a[i], b[i])

name_key == <<"n","a","m","e">>

\* Map.get('name'): the MapValue under the key, <<>> for None
Map_get(m, key) ==
    IF \E i \in DOMAIN m.items : m.items[i].key = key
    THEN <<m.items[CHOOSE i \in DOMAIN m.items : m.items[i].key = key].value>>
    ELSE <<>>

\* name.value.lower() raises AttributeError when the value is no str
has_lower(v) == v.kind \in {"Ident", "String"}

art_check == <<"a","r","t","-","c","h","e","c","k">>

py2_c_module == <<"p","y","2","-","c","-","m","o","d","u","l","e">>

\* Map.is_art_check, where the name is a str or there is none
Map_is_art_check(m) ==
    LET name == Map_get(m, name_key) IN
    IF name = <<>> THEN FALSE ELSE contains(lower(name[1].value.value), art_check)

\* Map.is_test, where the name is a str or there is none
Map_is_test(m) ==
    LET name == Map_get(m, name_key) IN
    IF name = <<>> THEN FALSE
    ELSE LET low == lower(name[1].value.value) IN
         util_is_test(low) /\ ~contains(low, py2_c_module)

\* Map.is_benchmark, where the name is a str or there is none
Map_is_benchmark(m) ==
    LET name == Map_get(m, name_key) IN
    IF name = <<>> THEN FALSE ELSE util_is_benchmark(name[1].value.value)

Scope_is_art_check(n) == contains(lower(n.name), art_check) \/ Map_is_art_check(n.map)

\* Scope.is_test that asks the name of the map when there is one, and the
\* name of the scope when there is none
Scope_is_test_by_name_first(n) ==
    IF Map_get(n.map, name_key) # <<>> THEN Map_is_test(n.map) ELSE util_is_test(n.name)

\* Scope.is_test, where it does not raise
Scope_is_test(n) == util_is_test(n.name) \/ Map_is_test(n.map)

Scope_is_benchmark(n) == util_is_benchmark(n.name) \/ Map_is_benchmark(n.map)

\* Map.is_dev, where the name is a str or there is none
Map_is_dev(m) == Map_is_test(m) \/ Map_is_benchmark(m)

\* Map.is_art_check and Map.is_test raise AttributeError when there is a
\* name and its value has no lower(); Map.is_benchmark then raises
\* TypeError, for re.search is given what is no str
Map_raises(m) ==
    \E name \in {Map_get(m, name_key)} : name # <<>> /\ ~has_lower(name[1].value)

\* Scope.is_test raises when "or" comes to a map that raises
Scope_is_test_raises(n) == ~util_is_test(n.name) /\ Map_raises(n.map)

\* Scope.is_benchmark raises when "or" comes to a map that raises
Scope_is_benchmark_raises(n) == ~util_is_benchmark(n.name) /\ Map_raises(n.map)

\* Scope.is_dev raises when is_art_check comes to a name that is no str
Scope_is_dev_raises(n) ==
    /\ ~contains(lower(n.name), art_check)
    /\ \E name \in {Map_get(n.map, name_key)} :
           name # <<>> /\ ~has_lower(name[1].value)

\* Scope.is_dev, where it does not raise
Scope_is_dev(n) == Scope_is_art_check(n) \/ Scope_is_test(n) \/ Scope_is_benchmark(n)

\* the predicates Ast.filter is called with
RulePredicates == {"not_dev_scope", "not_scope", "is_assignment"}

\* op(rule) raises
rule_op_raises(p, n) == p = "not_dev_scope" /\ n.kind = "Scope" /\ Scope_is_dev_raises(n)

\* op(rule)
rule_op(p, n) ==
    CASE p = "not_dev_scope" -> ~(n.kind = "Scope" /\ Scope_is_dev(n))
      [] p = "not_scope" -> n.kind # "Scope"
      [] p = "is_assignment" -> n.kind = "Assignment"

\* the predicates Map.filter is called with, on a key and its MapValue
PairPredicates == {"not_name", "not_list"}

\* op(k, v)
pair_op(q, k, v) ==
    CASE q = "not_name" -> k # name_key
      [] q = "not_list" -> v.value.kind # "List"

\* the predicates List.filter is called with
ItemPredicates == {"is_string", "not_ident"}

\* op(item)
list_op(r, n) ==
    CASE r = "is_string" -> n.kind = "String"
      [] r = "not_ident" -> n.kind # "Ident"

RECURSIVE SelectSeq2(_, _, _)
\* [i for i in lst if keep(i)] with keep given by index
SelectSeq2(lst, keep, i) ==
    IF i > Len(lst) THEN <<>>
    ELSE (IF keep[i] THEN <<lst[i]>> ELSE <<>>) \o SelectSeq2(lst, keep, i + 1)

RECURSIVE remove_while_iterating(_, _, _)
\* "for i in self: if not op(i): self.remove(i)", which steps over the
\* element that follows each one it removes
remove_while_iterating(lst, keep, i) ==
    IF i > Len(lst) THEN lst
    ELSE IF keep[i] THEN remove_while_iterating(lst, keep, i + 1)
    ELSE remove_while_iterating(
             SubSeq(lst, 1, i - 1) \o SubSeq(lst, i + 1, Len(lst)),
             SubSeq(keep, 1, i - 1) \o SubSeq(keep, i + 1, Len(keep)), i + 1)

\* Ast.filter by removal while iterating
Ast_filter_removing(rs, p) ==
    remove_while_iterating(rs, [i \in DOMAIN rs |-> rule_op(p, rs[i])], 1)

\* Ast.filter: self[:] = [i for i in self if op(i)]
Ast_filter(rs, p) == SelectSeq2(rs, [i \in DOMAIN rs |-> rule_op(p, rs[i])], 1)

RECURSIVE Map_recurse(_, _, _)
RECURSIVE Map_recurse_same_depth(_, _, _)
\* Map.recurse that gives its own depth to the map of a value
Map_recurse_same_depth(m, max_depth, depth) ==
    IF depth = max_depth THEN <<>>
    ELSE flatten([i \in DOMAIN m.items |->
             <<[key |-> m.items[i].key, value |-> m.items[i].value,
                depth |-> depth + 1, parent |-> m]>>
             \o (IF m.items[i].value.value.kind = "Map"
                 THEN Map_recurse(m.items[i].value.value, max_depth, depth)
                 ELSE <<>>)])

\* list(Map.recurse(max_depth, depth)): the tuples (key, value, depth,
\* parent) in the order they are yielded
Map_recurse(m, max_depth, depth) ==
    IF depth = max_depth THEN <<>>
    ELSE flatten([i \in DOMAIN m.items |->
             <<[key |-> m.items[i].key, value |-> m.items[i].value,
                depth |-> depth + 1, parent |-> m]>>
             \o (IF m.items[i].value.value.kind = "Map"
                 THEN Map_recurse(m.items[i].value.value, max_depth, depth + 1)
                 ELSE <<>>)])

\* Map.filter: the dict of the pairs op holds for
Map_filter(m, q) ==
    Map(SelectSeq2(m.items,
            [i \in DOMAIN m.items |-> pair_op(q, m.items[i].key, m.items[i].value)], 1))

\* List.filter: self[:] = [i for i in self if op(i)]
List_filter(l, r) ==
    List(SelectSeq2(l.items, [i \in DOMAIN l.items |-> list_op(r, l.items[i])], 1))

----------------------------------------------------------------------------
(* The makefile tool as a state machine: a text is loaded, the tree is     *)
(* filtered any number of times, and the tree is dumped.                   *)

LineText == <<"e","l","s","e">>

LineBlank == <<>>

LineIf == <<" ","i","f","d","e","f">>

LineEndif == <<"e","n","d","i","f">>

LineSep == <<"#","#","#","#","#","#">>

LineTitle == <<"#"," ","t","e","s","t">>

LineSepEndif == <<"#","#","#","#","#","#","e","n","d","i","f">>

\* a comment header: a separator line and a title line
Header == <<LineSep, LineTitle>>

\* the pieces an input text is made of: single lines and a whole header
MakePieces ==
    {<<LineText>>, <<LineBlank>>, <<LineIf>>, <<LineEndif>>, <<LineSep>>,
     <<LineTitle>>, <<LineSepEndif>>, Header}

RECURSIVE Texts(_)
\* the strings of exactly n pieces, joined by "\n"
Texts(n) ==
    IF n = 0 THEN {<<>>}
    ELSE {piece \o t : piece \in MakePieces, t \in Texts(n - 1)}

MakeInit ==
    /\ dialect = "make"
    /\ contents \in UNION {Texts(n) : n \in 1..MaxPieces}
    /\ makefile = <<>>
    /\ ast = <<>>
    /\ pc = "start"
    /\ error = ""
    /\ op = ""
    /\ repeated = FALSE
    /\ written = <<>>

\* Makefile.load: makefile = loads(contents)
Load ==
    /\ dialect = "make"
    /\ pc = "start"
    /\ \E r \in {loads(contents)} :
           /\ makefile' = r.makefile
           /\ error' = r.error
           /\ pc' = IF r.error = "" THEN "loaded" ELSE "raised"
    /\ UNCHANGED <<dialect, contents, ast, op, repeated, written>>

\* Makefile.filter(p)
Filter(p) ==
    /\ dialect = "make"
    /\ pc \in {"loaded", "filtered"}
    /\ makefile' = _filter_list(makefile, p)
    /\ op' = p
    /\ repeated' = (op = p)
    /\ pc' = "filtered"
    /\ UNCHANGED <<dialect, contents, ast, error, written>>

\* Makefile.dump: write dumps() + '\n'
Dump ==
    /\ dialect = "make"
    /\ pc \in {"loaded", "filtered"}
    /\ written' = <<Append(dumps(makefile), <<>>)>>
    /\ pc' = "dumped"
    /\ UNCHANGED <<dialect, contents, makefile, ast, error, op, repeated>>

MakeNext ==
    \/ Load
    \/ \E p \in Predicates : Filter(p)
    \/ Dump

----------------------------------------------------------------------------
(* The blueprint tool as a state machine: a text is loaded, the Ast, a Map *)
(* of it or a List of it is filtered any number of times, and the Ast is   *)
(* dumped, pretty or compact.  A text is lexemes with one separator        *)
(* between every two of them.                                              *)

IdX == <<"x">>

Equals == <<"=">>

WordTrue == <<"t","r","u","e">>

IdSubdirs == <<"s","u","b","d","i","r","s">>

LBracket == <<"[">>

StrTest == <<"\"","t","e","s","t","\"">>

Comma == <<",">>

IdA == <<"a">>

RBracket == <<"]">>

StrT == <<"\"","t","\"">>

Plus == <<"+">>

LBrace == <<"{">>

RBrace == <<"}">>

Int10 == <<"1","0">>

StrQuoteT == <<"\"","\\","\"","t","\"">>

IdName == <<"n","a","m","e">>

Colon == <<":">>

IdB == <<"b">>

IdCcTest == <<"c","c","_","t","e","s","t">>

StrA == <<"\"","a","\"">>

IdSrcs == <<"s","r","c","s">>

Int07 == <<"0","7">>

WordFalse == <<"f","a","l","s","e">>

StrOpen == <<"\"","t">>

Dollar == <<"$">>

IdTruex == <<"t","r","u","e","x">>

Int1 == <<"1">>

RuleBool ==
    <<IdX, Equals, WordTrue>>

RuleList ==
    <<IdSubdirs, Equals, LBracket, StrTest, Comma, IdA, Comma, RBracket>>

RuleListPlus ==
    <<IdX, Equals, LBracket, StrT, Plus, IdA, Plus, StrT, Comma, LBrace,
      RBrace, RBracket>>

RulePlus ==
    <<IdX, Equals, IdA, Plus, Int10, Plus, StrQuoteT>>

RuleMap ==
    <<IdX, Equals, LBrace, IdName, Colon, StrTest, Comma, IdName, Equals,
      IdA, Comma, RBrace>>

RuleNested ==
    <<IdX, Equals, LBrace, IdA, Equals, LBracket, IdA, RBracket, Comma, IdB,
      Colon, LBracket, RBracket, RBrace>>

RulePlusEquals ==
    <<IdX, Plus, Equals, LBracket, StrTest, RBracket>>

RuleEmptyScope ==
    <<IdX, LBrace, RBrace>>

RuleTestScope ==
    <<IdCcTest, LBrace, IdName, Colon, StrA, RBrace>>

RuleTestName ==
    <<IdX, LBrace, IdName, Colon, StrTest, Comma, IdSrcs, Colon, LBracket,
      StrA, Comma, IdB, RBracket, RBrace>>

RuleIntegerName ==
    <<IdX, LBrace, IdName, Colon, Int07, RBrace>>

RuleScope ==
    <<IdX, LBrace, IdA, Equals, WordFalse, Comma, IdName, Colon, IdB, RBrace>>

RuleNoExpr ==
    <<IdX, Equals>>

RuleOpenString ==
    <<IdX, Equals, StrOpen>>

RuleDollar ==
    <<IdX, Equals, IdA, Dollar>>

RuleTrueIdent ==
    <<IdTruex, Equals, Int1>>

RuleSum ==
    <<IdX, Equals, Int1, Plus, Int10>>

\* the rules an input text is made of, as the lexemes of each
SoongRules ==
    {RuleBool, RuleList, RuleListPlus, RulePlus, RuleMap, RuleNested,
     RulePlusEquals, RuleEmptyScope, RuleTestScope, RuleTestName,
     RuleIntegerName, RuleScope, RuleNoExpr, RuleOpenString, RuleDollar,
     RuleTrueIdent, RuleSum}

SepSpace == <<" ">>

SepNone == <<>>

SepLineComment == <<"/","/","c","\n">>

SepBlockComment == <<"/","*","\n","*","/">>

\* what stands between two lexemes of a text
SoongSeps == {SepSpace, SepNone, SepLineComment, SepBlockComment}

RECURSIVE RuleSeqs(_)
\* the sequences of exactly n rules
RuleSeqs(n) ==
    IF n = 0 THEN {<<>>}
    ELSE {<<r>> \o t : r \in SoongRules, t \in RuleSeqs(n - 1)}

\* the text of rules rs, with sep between every two lexemes
SoongText(rs, sep) == Join([i \in DOMAIN rs |-> Join(rs[i], sep)], sep)

\* the input texts of up to MaxRules rules
SoongTexts ==
    {SoongText(rs, sep) : rs \in UNION {RuleSeqs(n) : n \in 0..MaxRules},
                          sep \in SoongSeps}

\* no filter call yet
NoCall == [call |-> "", at |-> 0, op |-> ""]

SoongInit ==
    /\ dialect = "soong"
    /\ contents \in SoongTexts
    /\ makefile = <<>>
    /\ ast = <<>>
    /\ pc = "start"
    /\ error = ""
    /\ op = NoCall
    /\ repeated = FALSE
    /\ written = <<>>

\* Ast.load: ast = Ast.loads(contents)
SoongLoad ==
    /\ dialect = "soong"
    /\ pc = "start"
    /\ \E r \in {Ast_loads(contents)} :
           /\ ast' = r.ast
           /\ error' = r.error
           /\ pc' = IF r.error = "" THEN "loaded" ELSE "raised"
    /\ UNCHANGED <<dialect, contents, makefile, op, repeated, written>>

\* ast.filter(p): when op raises for a rule, the Ast stays as it was
AstFilter(p) ==
    /\ dialect = "soong"
    /\ pc \in {"loaded", "filtered"}
    /\ LET call == [call |-> "Ast.filter", at |-> 0, op |-> p] IN
       IF \E i \in DOMAIN ast : rule_op_raises(p, ast[i])
       THEN /\ error' = "AttributeError"
            /\ pc' = "raised"
            /\ UNCHANGED <<ast, op, repeated>>
       ELSE /\ ast' = Ast_filter(ast, p)
            /\ op' = call
            /\ repeated' = (op = call)
            /\ pc' = "filtered"
            /\ UNCHANGED error
    /\ UNCHANGED <<dialect, contents, makefile, written>>

\* the Map of rule i: the map of a Scope, or the expr of an assignment
has_map(n) == n.kind = "Scope" \/ (n.kind # "Scope" /\ n.expr.kind = "Map")

\* ast[i].map.filter(q) or ast[i].expr.filter(q)
MapFilter(i, q) ==
    /\ dialect = "soong"
    /\ pc \in {"loaded", "filtered"}
    /\ i \in DOMAIN ast
    /\ has_map(ast[i])
    /\ LET call == [call |-> "Map.filter", at |-> i, op |-> q] IN
       /\ ast' = IF ast[i].kind = "Scope"
                 THEN [ast EXCEPT ![i].map = Map_filter(@, q)]
                 ELSE [ast EXCEPT ![i].expr = Map_filter(@, q)]
       /\ op' = call
       /\ repeated' = (op = call)
    /\ pc' = "filtered"
    /\ UNCHANGED <<dialect, contents, makefile, error, written>>

\* ast[i].expr.filter(r) on the List of an assignment
ListFilter(i, r) ==
    /\ dialect = "soong"
    /\ pc \in {"loaded", "filtered"}
    /\ i \in DOMAIN ast
    /\ ast[i].kind # "Scope"
    /\ ast[i].expr.kind = "List"
    /\ LET call == [call |-> "List.filter", at |-> i, op |-> r] IN
       /\ ast' = [ast EXCEPT ![i].expr = List_filter(@, r)]
       /\ op' = call
       /\ repeated' = (op = call)
    /\ pc' = "filtered"
    /\ UNCHANGED <<dialect, contents, makefile, error, written>>

\* Ast.dump(fp, pretty): write dumps(pretty, indent) + '\n'
SoongDump(pretty) ==
    /\ dialect = "soong"
    /\ pc \in {"loaded", "filtered"}
    /\ written' = [pretty |-> pretty,
                   text |-> Ast_dumps(ast, pretty, DefaultIndent) \o <<"\n">>]
    /\ pc' = "dumped"
    /\ UNCHANGED <<dialect, contents, makefile, ast, error, op, repeated>>

SoongNext ==
    \/ SoongLoad
    \/ \E p \in RulePredicates : AstFilter(p)
    \/ \E i \in DOMAIN ast, q \in PairPredicates : MapFilter(i, q)
    \/ \E i \in DOMAIN ast, r \in ItemPredicates : ListFilter(i, r)
    \/ \E pretty \in BOOLEAN : SoongDump(pretty)

\* the makefile tool alone
MakeSpec == MakeInit /\ [][MakeNext]_vars

Init == MakeInit \/ SoongInit

Next == MakeNext \/ SoongNext

Spec == Init /\ [][Next]_vars

----------------------------------------------------------------------------
(* Classification of a blueprint scope: a text of one scope is loaded, and *)
(* is_test, is_benchmark and is_dev are asked of the scope and of its map. *)

IdCcBenchmark == <<"c","c","_","b","e","n","c","h","m","a","r","k">>

IdLatest == <<"l","a","t","e","s","t">>

StrBenchmark == <<"\"","b","e","n","c","h","m","a","r","k","\"">>

StrArtCheck == <<"\"","a","r","t","-","c","h","e","c","k","\"">>

StrPy2Test == <<"\"","p","y","2","-","c","-","m","o","d","u","l","e","-","t","e","s","t","\"">>

StrNonTest == <<"\"","n","o","n","-","t","e","s","t","\"">>

StrGTest == <<"\"","l","i","b","G","T","e","s","t","\"">>

\* the declared type names of the scopes
ScopeTypes == {IdX, IdCcTest, IdCcBenchmark, IdLatest}

\* the values of a name field: strings, identifiers and a number
NameValues ==
    {StrA, StrTest, StrBenchmark, StrArtCheck, StrPy2Test, StrNonTest, StrGTest,
     IdB, IdCcTest, IdCcBenchmark, Int07}

\* the maps of the scopes, as lexemes: without a name field, and with one
ScopeMaps ==
    {<<LBrace, RBrace>>, <<LBrace, IdSrcs, Colon, StrTest, RBrace>>}
    \cup {<<LBrace, IdName, Colon, v, RBrace>> : v \in NameValues}
    \cup {<<LBrace, IdSrcs, Colon, StrTest, Comma, IdName, Equals, v, RBrace>> :
              v \in {StrA, StrTest}}

\* the texts of one scope
ScopeTexts == {SoongText(<<<<t>> \o m>>, SepSpace) : t \in ScopeTypes, m \in ScopeMaps}

ClassifyInit ==
    /\ dialect = "soong"
    /\ contents \in ScopeTexts
    /\ makefile = <<>>
    /\ ast = <<>>
    /\ pc = "start"
    /\ error = ""
    /\ op = NoCall
    /\ repeated = FALSE
    /\ written = <<>>

\* what a call gives: the exception it raises when raises holds, or the
\* bool it returns
Outcome(raises, exception, value) ==
    IF raises THEN exception ELSE IF value THEN "True" ELSE "False"

\* util.is_test(name), util.is_benchmark(name), and is_test(), is_benchmark(),
\* is_dev() and is_art_check() of the scope ast[1] and of its map
Classify ==
    /\ dialect = "soong"
    /\ pc = "loaded"
    /\ Len(ast) = 1
    /\ ast[1].kind = "Scope"
    /\ written' =
          [name_is_test |-> Outcome(FALSE, "", util_is_test(ast[1].name)),
           name_is_benchmark |-> Outcome(FALSE, "", util_is_benchmark(ast[1].name)),
           map_is_test |->
               Outcome(Map_raises(ast[1].map), "AttributeError", Map_is_test(ast[1].map)),
           map_is_benchmark |->
               Outcome(Map_raises(ast[1].map), "TypeError", Map_is_benchmark(ast[1].map)),
           map_is_dev |->
               Outcome(Map_raises(ast[1].map), "AttributeError", Map_is_dev(ast[1].map)),
           is_art_check |->
               Outcome(Scope_is_dev_raises(ast[1]), "AttributeError",
                       Scope_is_art_check(ast[1])),
           is_test |->
               Outcome(Scope_is_test_raises(ast[1]), "AttributeError",
                       Scope_is_test(ast[1])),
           is_benchmark |->
               Outcome(Scope_is_benchmark_raises(ast[1]), "TypeError",
                       Scope_is_benchmark(ast[1])),
           is_dev |->
               Outcome(Scope_is_dev_raises(ast[1]), "AttributeError",
                       Scope_is_dev(ast[1]))]
    /\ pc' = "classified"
    /\ UNCHANGED <<dialect, contents, makefile, ast, error, op, repeated>>

ClassifyNext == SoongLoad \/ Classify

ClassifySpec == ClassifyInit /\ [][ClassifyNext]_vars

----------------------------------------------------------------------------
(* util.is_test and util.is_benchmark as a state machine: a name is given, *)
(* and both are asked of it.  A name is made of up to MaxParts parts, or   *)
(* is one of the names of the tests of util.py.                            *)

NameParts ==
    {<<"t","e","s","t">>, <<"T","e","s","t">>, <<"b","e","n","c","h","m","a","r","k">>,
     <<"B","E","N","C","H","M","A","R","K">>, <<"n","o","n","-">>, <<"N","o","n","-">>,
     <<"g">>, <<"G">>, <<"a">>, <<"7">>, <<"-">>, <<"_">>, <<"\n">>}

RECURSIVE NamesOf(_)
\* the names of exactly n parts
NamesOf(n) ==
    IF n = 0 THEN {<<>>}
    ELSE {part \o name : part \in NameParts, name \in NamesOf(n - 1)}

NameArtTests == <<"a","r","t","-","t","e","s","t","s">>

NameLibgtest == <<"l","i","b","g","t","e","s","t">>

NameLibgtestMain == <<"l","i","b","g","t","e","s","t","_","m","a","i","n">>

NameExtraTests == <<"e","x","t","r","a","-","t","e","s","t","s">>

NameNonTest ==
    <<"l","i","b","-","n","o","n","-","t","e","s","t","-","d","e","f","a","u","l","t","s">>

NameLatest == <<"l","a","t","e","s","t">>

NameBenchmark == <<"b","e","n","c","h","m","a","r","k">>

NameBenchmarks == <<"b","e","n","c","h","m","a","r","k","s">>

NameDashBenchmarks == <<"-","b","e","n","c","h","m","a","r","k","s">>

NameGbenchmarks == <<"g","b","e","n","c","h","m","a","r","k","s">>

\* the names of tests/test_util.py and of the comment of util.is_test
TestedNames ==
    {NameArtTests, NameLibgtest, NameLibgtestMain, NameExtraTests, NameNonTest,
     NameLatest, NameBenchmark, NameBenchmarks, NameDashBenchmarks, NameGbenchmarks}

UtilInit ==
    /\ dialect = "util"
    /\ contents \in TestedNames \cup UNION {NamesOf(n) : n \in 0..MaxParts}
    /\ makefile = <<>>
    /\ ast = <<>>
    /\ pc = "start"
    /\ error = ""
    /\ op = ""
    /\ repeated = FALSE
    /\ written = <<>>

\* util.is_test(contents) and util.is_benchmark(contents)
IsMatch ==
    /\ dialect = "util"
    /\ pc = "start"
    /\ written' = [is_test |-> util_is_test(contents),
                   is_benchmark |-> util_is_benchmark(contents)]
    /\ pc' = "matched"
    /\ UNCHANGED <<dialect, contents, makefile, ast, error, op, repeated>>

UtilNext == IsMatch

UtilSpec == UtilInit /\ [][UtilNext]_vars

----------------------------------------------------------------------------
(* Map.recurse as a state machine: a text x = <map> is loaded, and recurse *)
(* is called on the Map with a depth limit.  The maps are nested up to     *)
(* MaxNest deep.                                                           *)

\* a list that holds a map
ListOfMap == <<LBracket, LBrace, IdB, Colon, Int1, RBrace, RBracket>>

\* a map of one entry
SmallMap == <<LBrace, IdB, Colon, Int1, RBrace>>

RECURSIVE MapLexemes(_)
\* the maps nested up to n deep, as lexemes: no entry, one entry, and two
\* entries; the value of an entry is a number, a list that holds a map, or
\* a map
MapLexemes(n) ==
    LET values == {<<Int1>>, ListOfMap}
                  \cup (IF n = 0 THEN {} ELSE MapLexemes(n - 1))
    IN {<<LBrace, RBrace>>}
       \cup {<<LBrace, IdA, Colon>> \o v \o <<RBrace>> : v \in values}
       \cup {<<LBrace, IdA, Colon>> \o v \o <<Comma, IdB, Equals>> \o w \o <<RBrace>> :
                 v \in values, w \in {<<Int1>>, SmallMap}}

\* the texts x = <map>
MapTexts == {SoongText(<<<<IdX, Equals>> \o m>>, SepSpace) : m \in MapLexemes(MaxNest)}

MapRecurseInit ==
    /\ dialect = "soong"
    /\ contents \in MapTexts
    /\ makefile = <<>>
    /\ ast = <<>>
    /\ pc = "start"
    /\ error = ""
    /\ op = NoCall
    /\ repeated = FALSE
    /\ written = <<>>

\* list(ast[1].expr.recurse(max_depth))
MapRecurse(max_depth) ==
    /\ dialect = "soong"
    /\ pc = "loaded"
    /\ Len(ast) = 1
    /\ ast[1].kind = "Assignment"
    /\ ast[1].expr.kind = "Map"
    /\ written' = [max_depth |-> max_depth,
                   yielded |-> Map_recurse(ast[1].expr, max_depth, 0)]
    /\ pc' = "recursed"
    /\ UNCHANGED <<dialect, contents, makefile, ast, error, op, repeated>>

MapRecurseNext ==
    \/ SoongLoad
    \/ \E max_depth \in -1..MaxDepth : MapRecurse(max_depth)

MapRecurseSpec == MapRecurseInit /\ [][MapRecurseNext]_vars

----------------------------------------------------------------------------
(* Ast.loads as a state machine, with the exception it raises: the texts   *)
(* of the blueprint tool are loaded, and the handler that raised is        *)
(* written down, with the message of Lexer.error or the value of the       *)
(* token Parser.error was called for.                                      *)

\* Ast.loads(contents), and the ValueError it raises
Loads ==
    /\ dialect = "soong"
    /\ pc = "start"
    /\ \E r \in {Ast_loads(contents)} :
           /\ ast' = r.ast
           /\ error' = r.error
           /\ pc' = IF r.error = "" THEN "loaded" ELSE "raised"
           /\ written' = IF r.message = "Illegal character"
                         THEN [handler |-> "Lexer.error",
                               message |-> Lexer_error(r.at)]
                         ELSE IF r.message = "Illegal token"
                         THEN [handler |-> "Parser.error", token |-> r.at]
                         ELSE [handler |-> ""]
    /\ UNCHANGED <<dialect, contents, makefile, op, repeated>>

LoadsNext == Loads

LoadsSpec == SoongInit /\ [][LoadsNext]_vars

----------------------------------------------------------------------------
(* Makefile.recurse as a state machine: a text is loaded, and recurse is   *)
(* called on the Makefile with a depth limit.                              *)

\* the pieces of the texts recurse is called on: single lines, a header,
\* and a directive with its first line
RecursePieces ==
    {<<LineText>>, <<LineIf>>, <<LineEndif>>, Header, <<LineIf, LineText>>}

RECURSIVE RecurseTexts(_)
\* the strings of exactly n of these pieces
RecurseTexts(n) ==
    IF n = 0 THEN {<<>>}
    ELSE {piece \o t : piece \in RecursePieces, t \in RecurseTexts(n - 1)}

RecurseInit ==
    /\ dialect = "make"
    /\ contents \in UNION {RecurseTexts(n) : n \in 1..MaxNodes}
    /\ makefile = <<>>
    /\ ast = <<>>
    /\ pc = "start"
    /\ error = ""
    /\ op = ""
    /\ repeated = FALSE
    /\ written = <<>>

\* list(makefile.recurse(max_depth))
Recurse(max_depth) ==
    /\ dialect = "make"
    /\ pc = "loaded"
    /\ written' = [max_depth |-> max_depth,
                   yielded |-> _recurse_list(makefile, max_depth, 0)]
    /\ pc' = "recursed"
    /\ UNCHANGED <<dialect, contents, makefile, ast, error, op, repeated>>

RecurseNext ==
    \/ Load
    \/ \E max_depth \in -1..MaxDepth : Recurse(max_depth)

RecurseSpec == RecurseInit /\ [][RecurseNext]_vars

----------------------------------------------------------------------------
(* loads on texts of comment headers of two separator styles: a line of    *)
(* sep2 beside the lines of sep3.                                          *)

LineRule == <<"#"," ","-","-","-","-","-">>

\* the pieces of these texts: single lines
SplitPieces ==
    {<<LineText>>, <<LineBlank>>, <<LineSep>>, <<LineRule>>, <<LineTitle>>,
     <<LineSepEndif>>}

RECURSIVE SplitTexts(_)
\* the strings of exactly n of these pieces
SplitTexts(n) ==
    IF n = 0 THEN {<<>>}
    ELSE {piece \o t : piece \in SplitPieces, t \in SplitTexts(n - 1)}

SplitInit ==
    /\ dialect = "make"
    /\ contents \in UNION {SplitTexts(n) : n \in 1..MaxPieces}
    /\ makefile = <<>>
    /\ ast = <<>>
    /\ pc = "start"
    /\ error = ""
    /\ op = ""
    /\ repeated = FALSE
    /\ written = <<>>

SplitNext == Load

SplitSpec == SplitInit /\ [][SplitNext]_vars

----------------------------------------------------------------------------
(* build-system.py --remove-tests as a state machine, on one makefile:     *)
(* contents is the build file at path, written is the file path.bak (<<>>  *)
(* while there is none, <<text>> when it exists), and op holds whether     *)
(* --disable-backup was on the command line of the last run, and the       *)
(* contents of the build file at the start and after every run.            *)

\* parser.parse_args(): --disable-backup has action='store_false', so that
\* args.disable_backup is True unless the flag is passed
parse_args(passed) == [disable_backup |-> ~passed]

\* backup(src): shutil.copy2(src, src + '.bak')
backup(src) == <<src>>

\* restore(dst): shutil.copy2(dst + '.bak', dst) when the backup exists
restore(dst, bak) == IF bak # <<>> THEN bak[1] ELSE dst

\* remove_makefile_tests(path): the file it leaves at path, and the error it
\* raises; the file is opened for writing after load and filter
remove_makefile_tests(text) ==
    With(loads(text), LAMBDA r :
        IF r.error # "" THEN [error |-> r.error, file |-> text]
        ELSE [error |-> "",
              file |-> Append(dumps(_filter_list(r.makefile, "not_dev")), <<>>)])

\* remove_tests that makes a backup in every run
remove_tests_backup_always(file, bak, args) ==
    [bak |-> IF ~args.disable_backup THEN backup(file) ELSE bak,
     run |-> remove_makefile_tests(restore(file, bak))]

\* remove_tests(path, args, remove_makefile_tests): the backup and the file
\* it leaves
remove_tests(file, bak, args) ==
    [bak |-> IF bak # <<>> THEN bak
             ELSE IF ~args.disable_backup THEN backup(file)
             ELSE <<>>,
     run |-> remove_makefile_tests(restore(file, bak))]

BuildInit ==
    /\ dialect = "build-system"
    /\ contents \in UNION {Texts(n) : n \in 1..MaxBuildPieces}
    /\ makefile = <<>>
    /\ ast = <<>>
    /\ pc = "start"
    /\ error = ""
    /\ op = [passed |-> FALSE, files |-> <<contents>>]
    /\ repeated = FALSE
    /\ written = <<>>

\* build-system.py --remove-tests [--disable-backup], on the file at path
RemoveTests(passed) ==
    /\ dialect = "build-system"
    /\ Len(op.files) <= MaxRuns
    /\ \E r \in {remove_tests(contents, written, parse_args(passed))} :
           /\ written' = r.bak
           /\ contents' = r.run.file
           /\ error' = r.run.error
           /\ pc' = IF r.run.error = "" THEN "processed" ELSE "raised"
           /\ op' = [passed |-> passed, files |-> Append(op.files, r.run.file)]
    /\ UNCHANGED <<dialect, makefile, ast, repeated>>

BuildNext == \E passed \in BOOLEAN : RemoveTests(passed)

BuildSpec == BuildInit /\ [][BuildNext]_vars

----------------------------------------------------------------------------
(* What the claims speak of, stated apart from the parser's own helpers.   *)

\* the makefile tree as loaded, before any filter
MakeLoaded == dialect = "make" /\ pc = "loaded"

\* the makefile tree after at least one filter call
MakeFiltered == dialect = "make" /\ pc = "filtered"

\* dump has written an unfiltered makefile tree
MakeDumpedUnfiltered == dialect = "make" /\ pc = "dumped" /\ op = ""

RECURSIVE LeftTrimmed(_)
LeftTrimmed(line) ==
    IF Len(line) > 0 /\ (line[1] = " " \/ line[1] = "\t")
    THEN LeftTrimmed(SubSeq(line, 2, Len(line)))
    ELSE line

HasPrefix(line, word) ==
    Len(line) >= Len(word) /\ \A i \in 1..Len(word) : line[i] = word[i]

\* a line that opens a directive
OpenerLine(line) ==
    LET t == LeftTrimmed(line) IN
    \/ HasPrefix(t, <<"i","f","e","q">>)
    \/ HasPrefix(t, <<"i","f","n","e","q">>)
    \/ HasPrefix(t, <<"i","f","d","e","f">>)
    \/ HasPrefix(t, <<"i","f","n","d","e","f">>)

\* an endif line
EndifLine(line) == HasPrefix(LeftTrimmed(line), <<"e","n","d","i","f">>)

\* the lines of a text as a reader of the file sees them
FileLines(text) == IF text[Len(text)] = <<>> THEN SubSeq(text, 1, Len(text) - 1) ELSE text

RECURSIVE OpenDepth(_, _, _)
\* the count of directives open after lines i.. of a text read with d open;
\* -1 when an endif line is met with none open
OpenDepth(lines, i, d) ==
    IF i > Len(lines) THEN d
    ELSE IF OpenerLine(lines[i]) THEN OpenDepth(lines, i + 1, d + 1)
    ELSE IF EndifLine(lines[i])
    THEN (IF d = 0 THEN -1 ELSE OpenDepth(lines, i + 1, d - 1))
    ELSE OpenDepth(lines, i + 1, d)

\* every opener has its endif and every endif its opener
Balanced(text) == OpenDepth(FileLines(text), 1, 0) = 0

RECURSIVE Nodes(_)
\* the Block, CommentBlock and DirectiveBlock nodes of a node, in pre-order
Nodes(n) ==
    CASE n.kind = "BlockList" -> flatten([i \in 1..Len(n.items) |-> Nodes(n.items[i])])
      [] n.kind \in {"CommentBlock", "DirectiveBlock"} -> <<n>> \o Nodes(n.child)
      [] OTHER -> <<n>>

\* the nodes of a Makefile, in pre-order
TreeNodes(mk) == Nodes(BlockList(mk))

RECURSIVE Lists(_)
\* every sibling list under a node
Lists(n) ==
    CASE n.kind = "BlockList" ->
            <<n.items>> \o flatten([i \in 1..Len(n.items) |-> Lists(n.items[i])])
      [] n.kind \in {"CommentBlock", "DirectiveBlock"} -> Lists(n.child)
      [] OTHER -> <<>>

\* every sibling list of a Makefile, the top level first
TreeLists(mk) == Lists(BlockList(mk))

----------------------------------------------------------------------------
(* C1: serializing the unfiltered tree gives back the input text:          *)
(* dumps(loads(T)) = T for every makefile text T.  What dump wrote is      *)
(* dumps() followed by one "\n".                                           *)
C1_RoundTrip ==
    MakeDumpedUnfiltered => written[1] = Append(contents, <<>>)

(* C2: for a makefile text T that ends with a newline, load followed by    *)
(* dump rewrites the file byte for byte: dumps(loads(T)) + "\n" = T.       *)
C2_RoundTripNewline ==
    (MakeDumpedUnfiltered /\ Len(contents) > 1 /\ Last(contents) = <<>>)
        => written[1] = contents

\* the tree loads built from the text in hand
Parsed == loads(contents).makefile

RECURSIVE Remains(_, _)
RECURSIVE RemainsOf(_, _)

\* node x is node y with nodes removed somewhere under it
Remains(x, y) ==
    /\ x.kind = y.kind
    /\ CASE x.kind = "Block" -> x.text = y.text
         [] x.kind = "BlockList" -> RemainsOf(x.items, y.items)
         [] x.kind = "CommentBlock" ->
               x.comment = y.comment /\ x.title = y.title /\ Remains(x.child, y.child)
         [] x.kind = "DirectiveBlock" ->
               x.start = y.start /\ x.end = y.end /\ Remains(x.child, y.child)
         [] OTHER -> FALSE

\* list a is what is left of list b, in the order of b
RemainsOf(a, b) ==
    IF a = <<>> THEN TRUE
    ELSE IF b = <<>> THEN FALSE
    ELSE \/ Remains(a[1], b[1]) /\ RemainsOf(Tail(a), Tail(b))
         \/ RemainsOf(a, Tail(b))

AllSatisfy(mk, p) == \A i \in 1..Len(TreeNodes(mk)) : Apply(p, TreeNodes(mk)[i])

(* C3: after filter(tree, p) every node that remains, at any depth,        *)
(* satisfies p, and each sibling list holds what is left of the list it    *)
(* was, in the same order; the call updates the tree it was given.         *)
C3_FilterKeeps ==
    [][(dialect' = "make" /\ pc' = "filtered")
          => (AllSatisfy(makefile', op') /\ RemainsOf(makefile', makefile))]_vars

\* filter has removed the test section of a tree and kept the rest, a
\* nested node included
C3_Witness ==
    /\ MakeFiltered
    /\ op = "not_dev"
    /\ makefile # Parsed
    /\ \E i \in 1..Len(makefile) : has_child(makefile[i])

(* C4: when every opener of the input has its endif and every endif its    *)
(* opener, the text dumped after any filter is balanced as well: no        *)
(* opener without its endif, no endif without its opener.                  *)
C4_FilterBalanced ==
    (dialect = "make" /\ pc = "dumped" /\ op # "" /\ Balanced(contents))
        => Balanced(written[1])

NoSingletonChild(mk) ==
    \A i \in 1..Len(TreeNodes(mk)) :
        LET n == TreeNodes(mk)[i] IN
        has_child(n) => ~(is_block_list(n.child) /\ Len(n.child.items) = 1)

(* C5: filtering is idempotent: a filter call that repeats the call before *)
(* it, with the same predicate on the same tree, list or map, changes      *)
(* nothing; for Makefile.filter and for the blueprint Ast.filter,          *)
(* Map.filter and List.filter.                                             *)
C5_FilterIdempotent ==
    [][(pc = "filtered" /\ pc' = "filtered" /\ op' = op)
          => (makefile' = makefile /\ ast' = ast)]_vars

\* Ast.filter has been called twice in a row with one predicate, and rules
\* of the loaded Ast are gone
C5_Witness ==
    /\ dialect = "soong"
    /\ pc = "filtered"
    /\ repeated
    /\ op.call = "Ast.filter"
    /\ Len(ast) < Len(Ast_loads(contents).ast)

(* C6 as claimed: in every tree reached by parse and any sequence of       *)
(* filter calls, no DirectiveBlock or CommentBlock has as its child a      *)
(* list of exactly one element.                                            *)
C6_NoSingletonEver ==
    (dialect = "make" /\ pc \in {"loaded", "filtered"}) => NoSingletonChild(makefile)

(* C6 as amended: in every tree parse returns, no DirectiveBlock or        *)
(* CommentBlock has as its child a list of exactly one element.            *)
C6_NoSingletonParsed == MakeLoaded => NoSingletonChild(makefile)

\* parse has unwrapped a list of one: a comment whose only child is the
\* directive that followed its header
C6_Witness ==
    /\ MakeLoaded
    /\ \E i \in 1..Len(makefile) :
          is_comment(makefile[i]) /\ is_directive(makefile[i].child)

\* once a list holds a CommentBlock, all that follows in it is CommentBlocks
CommentsLast(lst) ==
    \A i, j \in 1..Len(lst) : (i < j /\ is_comment(lst[i])) => is_comment(lst[j])

Count(seq, Test(_)) == Len(SelectSeq(seq, Test))

\* some directive is open when the text ends
Unclosed(text) == OpenDepth(FileLines(text), 1, 0) > 0

\* the directives of a tree, in pre-order
Directives(mk) == SelectSeq(TreeNodes(mk), is_directive)

(* C8: parsing a text in which an opener has no endif before the end of    *)
(* the input does not raise; the DirectiveBlock left open has end = None   *)
(* and is serialized as its start line and body, with no endif line.       *)
C8_UnclosedParses ==
    (dialect = "make" /\ pc \in {"loaded", "raised"} /\ Unclosed(contents))
        => /\ pc = "loaded"
           /\ LET ds == Directives(makefile)
                  open(d) == d.end = <<>>
              IN /\ Count(ds, open) = OpenDepth(FileLines(contents), 1, 0)
                 /\ \A i \in 1..Len(ds) :
                       open(ds[i]) => Str(ds[i]) = <<ds[i].start>> \o Str(ds[i].child)

RECURSIVE OpenerDepths(_, _, _)
\* for each opener of lines i.., in order, how many directives are open
\* when it is met, an endif closing the innermost open one
OpenerDepths(lines, i, d) ==
    IF i > Len(lines) THEN <<>>
    ELSE IF OpenerLine(lines[i]) THEN <<d>> \o OpenerDepths(lines, i + 1, d + 1)
    ELSE IF EndifLine(lines[i]) /\ d > 0 THEN OpenerDepths(lines, i + 1, d - 1)
    ELSE OpenerDepths(lines, i + 1, d)

RECURSIVE DirectiveDepths(_, _)
\* for each DirectiveBlock under a node, in pre-order, how many
\* DirectiveBlocks it is nested in
DirectiveDepths(n, d) ==
    CASE n.kind = "BlockList" ->
            flatten([i \in 1..Len(n.items) |-> DirectiveDepths(n.items[i], d)])
      [] n.kind = "CommentBlock" -> DirectiveDepths(n.child, d)
      [] n.kind = "DirectiveBlock" -> <<d>> \o DirectiveDepths(n.child, d + 1)
      [] OTHER -> <<>>

RECURSIVE ClosingEndifs(_, _, _)
\* how many endif lines of lines i.. are met while a directive is open
ClosingEndifs(lines, i, d) ==
    IF i > Len(lines) THEN 0
    ELSE IF OpenerLine(lines[i]) THEN ClosingEndifs(lines, i + 1, d + 1)
    ELSE IF EndifLine(lines[i]) /\ d > 0 THEN 1 + ClosingEndifs(lines, i + 1, d - 1)
    ELSE ClosingEndifs(lines, i + 1, d)

\* the lines of the Block texts of a tree
BlockLines(mk) ==
    flatten([i \in 1..Len(TreeNodes(mk)) |->
                IF is_block(TreeNodes(mk)[i]) THEN TreeNodes(mk)[i].text ELSE <<>>])

IsElse(line) == HasPrefix(LeftTrimmed(line), <<"e","l","s","e">>)

(* C9: the tree has one DirectiveBlock for each opener line of the input,  *)
(* nested as the openers are nested; a DirectiveBlock starts with its      *)
(* opener line and is closed only by an endif line met while it is the     *)
(* innermost open directive; else lines stay text inside a Block.          *)
C9_DirectivesAreOpeners ==
    MakeLoaded =>
        LET lines == FileLines(contents)
            ds == Directives(makefile)
            closed(d) == d.end # <<>>
        IN /\ DirectiveDepths(BlockList(makefile), 0) = OpenerDepths(lines, 1, 0)
           /\ [i \in 1..Len(ds) |-> ds[i].start] = SelectSeq(lines, OpenerLine)
           /\ \A i \in 1..Len(ds) : closed(ds[i]) => EndifLine(ds[i].end[1])
           /\ Count(ds, closed) = ClosingEndifs(lines, 1, 0)
           /\ Count(BlockLines(makefile), IsElse) = Count(lines, IsElse)

\* a directive nested in a directive, an else line in its body, and an
\* endif line outside any directive
C9_Witness ==
    /\ MakeLoaded
    /\ \E i \in 1..Len(DirectiveDepths(BlockList(makefile), 0)) :
          DirectiveDepths(BlockList(makefile), 0)[i] = 1
    /\ Count(BlockLines(makefile), IsElse) > 0
    /\ Count(BlockLines(makefile), EndifLine) > 0

(* C10: for every blueprint text T that parses, parsing the compact        *)
(* serialization of the Ast gives an Ast equal to it, with the same rules  *)
(* in the same order: loads(dumps(loads(T), pretty=False)) == loads(T).    *)
C10_CompactRoundTrip ==
    (dialect = "soong" /\ pc = "dumped" /\ op = NoCall /\ ~written.pretty) =>
        LET again == Ast_loads(Front(written.text)) IN
        /\ again.error = ""
        /\ Len(again.ast) = Len(ast)
        /\ Ast_eq(again.ast, ast)

\* the compact serialization of an unfiltered Ast of two rules or more has
\* been written, and it is not the text that was read
C10_Witness ==
    /\ dialect = "soong"
    /\ pc = "dumped"
    /\ op = NoCall
    /\ ~written.pretty
    /\ Len(ast) >= 2
    /\ Front(written.text) # contents

----------------------------------------------------------------------------
(* The tokens of the text that was read, and where its rules start: what   *)
(* the claims on the blueprint grammar say of a text, apart from the       *)
(* parser.                                                                 *)

SoongLoaded == dialect = "soong" /\ pc = "loaded"

\* the number of indices of seq, up to n, whose element Test holds for
CountUpTo(seq, n, Test(_)) == Cardinality({q \in 1..n : Test(seq[q])})

IsOpening(t) == t.type \in {"LBRACE", "LBRACKET"}

IsClosing(t) == t.type \in {"RBRACE", "RBRACKET"}

\* how many maps and lists the token at p is inside of
BracketDepth(toks, p) ==
    CountUpTo(toks, p - 1, IsOpening) - CountUpTo(toks, p - 1, IsClosing)

\* a rule starts at p: a name outside every map and list, with "=", "+="
\* or "{" after it
RuleStartsAt(toks, p) ==
    /\ toks[p].type = "IDENT"
    /\ BracketDepth(toks, p) = 0
    /\ lookahead(toks, p + 1) \in {"EQUALS", "LBRACE", "PLUS"}
    /\ lookahead(toks, p + 1) = "PLUS" => lookahead(toks, p + 2) = "EQUALS"

\* the index of the first token of rule k, Len(toks) + 1 when there are
\* fewer rules than k
RuleStart(toks, k) ==
    IF \E p \in DOMAIN toks :
           RuleStartsAt(toks, p)
           /\ Cardinality({q \in 1..p : RuleStartsAt(toks, q)}) = k
    THEN CHOOSE p \in DOMAIN toks :
           RuleStartsAt(toks, p)
           /\ Cardinality({q \in 1..p : RuleStartsAt(toks, q)}) = k
    ELSE Len(toks) + 1

\* the tokens of rule k
RuleTokens(toks, k) == SubSeq(toks, RuleStart(toks, k), RuleStart(toks, k + 1) - 1)

\* the node of an operand that is one token: a name, a string or a number
OperandNode(t) ==
    CASE t.type = "IDENT" -> Ident(t.value)
      [] t.type = "STRING" -> String(t.value)
      [] t.type = "INTEGER" -> Integer(int(t.value))

\* the tokens r are x = e1 + e2 + ... + en, n >= 2, each e one token
IsSum(r) ==
    /\ Len(r) >= 5
    /\ Len(r) % 2 = 1
    /\ r[2].type = "EQUALS"
    /\ \A k \in 3..Len(r) :
           IF k % 2 = 0 THEN r[k].type = "PLUS"
           ELSE r[k].type \in {"IDENT", "STRING", "INTEGER"}

\* e1, ..., en of a sum, as nodes
Operands(r) == [k \in 1..((Len(r) - 1) \div 2) |-> OperandNode(r[2 * k + 1])]

RECURSIVE LeftNested(_)
\* ((e1 + e2) + e3) ... + en
LeftNested(es) ==
    IF Len(es) = 1 THEN es[1]
    ELSE BinaryOperator(LeftNested(Front(es)), Plus, Last(es))

(* C11: "+" at expression level is recorded and never evaluated, and it    *)
(* groups to the left: the rule x = e1 + e2 + ... + en is parsed as the    *)
(* Assignment of ((e1 + e2) + e3) ... + en to x, BinaryOperator nodes with *)
(* op "+" that hold the operand nodes as they were read.                   *)
C11_PlusNestsLeft ==
    SoongLoaded =>
        \A k \in DOMAIN ast :
            \E r \in {RuleTokens(tokenize(contents).tokens, k)} :
                IsSum(r) => ast[k] = Assignment(r[1].value, LeftNested(Operands(r)))

\* a text with 1 + 10 and with a sum of three operands has been parsed:
\* the first is still a BinaryOperator of two Integer nodes, the second
\* has a BinaryOperator as its left operand
C11_Witness ==
    /\ SoongLoaded
    /\ \E k \in DOMAIN ast :
           /\ IsSum(RuleTokens(tokenize(contents).tokens, k))
           /\ ast[k].expr = BinaryOperator(Integer(1), Plus, Integer(10))
    /\ \E k \in DOMAIN ast :
           /\ IsSum(RuleTokens(tokenize(contents).tokens, k))
           /\ ast[k].expr.lhs.kind = "BinaryOperator"

RECURSIVE Parts(_, _)
\* the nodes of the tree n in the order they are written, n first, each
\* with the depth to_str is called with for it when n is written at depth d
Parts(n, d) ==
    <<[node |-> n, depth |-> d]>> \o
    CASE n.kind \in {"Ident", "String", "Integer", "Bool"} -> <<>>
      [] n.kind = "MapValue" -> Parts(n.value, d)
      [] n.kind = "BinaryOperator" -> Parts(n.lhs, d) \o Parts(n.rhs, d)
      [] n.kind \in {"Assignment", "BinaryOperatorAssignment"} -> Parts(n.expr, d)
      [] n.kind = "Scope" -> Parts(n.map, d)
      [] n.kind = "Map" ->
            flatten([i \in DOMAIN n.items |-> Parts(n.items[i].value, d + 1)])
      [] n.kind = "List" ->
            flatten([i \in DOMAIN n.items |->
                        Parts(n.items[i], IF n.items[i].kind = "Map" THEN d ELSE d + 1)])

\* the nodes of every rule of an Ast, with their depths
AstParts(rs) == flatten([i \in DOMAIN rs |-> Parts(rs[i], 0)])

\* the parts of an Ast that are List nodes
AstLists(rs) == SelectSeq(AstParts(rs), LAMBDA q : q.node.kind = "List")

\* a string, an identifier or a map
IsPlainItem(n) == n.kind \in {"String", "Ident", "Map"}

\* a plain item, or the "+" of two plain items
IsOneLevelItem(n) ==
    \/ IsPlainItem(n)
    \/ n.kind = "BinaryOperator" /\ IsPlainItem(n.lhs) /\ IsPlainItem(n.rhs)

RECURSIVE IsLeftNestedItem(_)
\* a plain item, or ((i1 + i2) + i3) ... of plain items
IsLeftNestedItem(n) ==
    \/ IsPlainItem(n)
    \/ /\ n.kind = "BinaryOperator"
       /\ n.op = Plus
       /\ IsPlainItem(n.rhs)
       /\ IsLeftNestedItem(n.lhs)

----------------------------------------------------------------------------
(* Classification of blueprint scopes.                                     *)

\* the scope that was classified has a name field in its map
HasNameField == \E i \in DOMAIN ast[1].map.items : ast[1].map.items[i].key = IdName

(* C13 as stated: a scope is classified as test, and likewise as           *)
(* benchmark, by the name field of its map when that field is present,     *)
(* and by its declared type name only when the map has no name field.      *)
C13_NameFieldDecides ==
    pc = "classified" =>
        /\ written.is_test =
              IF HasNameField THEN written.map_is_test ELSE written.name_is_test
        /\ written.is_benchmark =
              IF HasNameField THEN written.map_is_benchmark ELSE written.name_is_benchmark

(* C13 as amended: a scope is classified as test, and likewise as          *)
(* benchmark, when its declared type name is a test name or the name field *)
(* of its map is: the type name is asked first, whether the map has a name *)
(* field or not, and the map is asked only when the type name is not a     *)
(* test name, so that what the map answers or raises is then the answer.   *)
C13_TypeNameOrNameField ==
    pc = "classified" =>
        /\ written.is_test =
              IF written.name_is_test = "True" THEN "True" ELSE written.map_is_test
        /\ written.is_benchmark =
              IF written.name_is_benchmark = "True" THEN "True"
              ELSE written.map_is_benchmark
        /\ ~HasNameField => written.map_is_test = "False" /\ written.map_is_benchmark = "False"

\* a scope of a test type whose map has a name that is no test name has
\* been classified as test
C13_Witness ==
    /\ pc = "classified"
    /\ HasNameField
    /\ written.name_is_test = "True"
    /\ written.map_is_test = "False"
    /\ written.is_test = "True"

(* C14: for every classifiable node, is_dev() is true exactly when         *)
(* is_test() or is_benchmark() is true; here for a blueprint Scope and its *)
(* Map, where none of the calls raises.                                    *)
C14_DevIsTestOrBenchmark ==
    (pc = "classified" /\ written.is_dev \in {"True", "False"}) =>
        /\ written.is_dev = "True"
              <=> (written.is_test = "True" \/ written.is_benchmark = "True")
        /\ written.map_is_dev = "True"
              <=> (written.map_is_test = "True" \/ written.map_is_benchmark = "True")

----------------------------------------------------------------------------
(* Names of tests and of benchmarks.                                       *)

\* word occurs in s at i, whatever the case of the letters of s
OccursAt(s, i, word) ==
    /\ i >= 1
    /\ i + Len(word) - 1 <= Len(s)
    /\ \A k \in 1..Len(word) : LowerChar(s[i + k - 1]) = word[k]

\* word occurs in s, whatever the case
Occurs(s, word) == \E i \in 1..Len(s) : OccursAt(s, i, word)

\* i is the start of s, or the character before i is no letter and no digit
AtTokenStart(s, i) == i = 1 \/ s[i - 1] \notin Letters \cup Digits

(* C15: is_test(s) is true exactly when s does not contain "non-test" and  *)
(* "test" occurs in s at the start, directly after a character that is no  *)
(* letter and no digit, or directly after a letter g, all of it whatever   *)
(* the case; art-tests, libgtest, libgtest_main and extra-tests are test   *)
(* names, lib-non-test-defaults and latest are not.                        *)
C15_IsTest ==
    (dialect = "util" /\ pc = "matched") =>
        /\ written.is_test <=>
              /\ ~Occurs(contents, <<"n","o","n","-","t","e","s","t">>)
              /\ \E i \in 1..Len(contents) :
                     /\ OccursAt(contents, i, <<"t","e","s","t">>)
                     /\ AtTokenStart(contents, i) \/ contents[i - 1] \in {"g", "G"}
        /\ contents \in {NameArtTests, NameLibgtest, NameLibgtestMain, NameExtraTests}
              => written.is_test
        /\ contents \in {NameNonTest, NameLatest} => ~written.is_test

\* libgtest, where "test" comes after a g, has been found a test name
C15_Witness ==
    /\ dialect = "util"
    /\ pc = "matched"
    /\ contents = NameLibgtest
    /\ written.is_test

(* C16: is_benchmark(s) is true exactly when "benchmark" occurs in s,      *)
(* whatever the case, at the start or directly after a character that is   *)
(* no letter and no digit; a g before it does not count: benchmark,        *)
(* benchmarks and -benchmarks are benchmark names, gbenchmarks is not.     *)
C16_IsBenchmark ==
    (dialect = "util" /\ pc = "matched") =>
        /\ written.is_benchmark <=>
              \E i \in 1..Len(contents) :
                  /\ OccursAt(contents, i, <<"b","e","n","c","h","m","a","r","k">>)
                  /\ AtTokenStart(contents, i)
        /\ contents \in {NameBenchmark, NameBenchmarks, NameDashBenchmarks}
              => written.is_benchmark
        /\ contents = NameGbenchmarks => ~written.is_benchmark

\* gbenchmarks, where "benchmark" comes after a g, has been found no
\* benchmark name
C16_Witness ==
    /\ dialect = "util"
    /\ pc = "matched"
    /\ contents = NameGbenchmarks
    /\ ~written.is_benchmark

----------------------------------------------------------------------------
(* The layout of a pretty dump.                                            *)

\* n spaces
Spaces(n) == [i \in 1..n |-> " "]

\* each of strs on a line of its own, after level levels of indent and
\* with a comma after it
OnePerLine(strs, level) ==
    flatten([i \in DOMAIN strs |->
                Spaces(DefaultIndent * level) \o strs[i] \o <<",", "\n">>])

\* the elements of the List l written at depth d, as they are written
ElementStrs(l, d) ==
    [i \in DOMAIN l.items |->
        to_str(l.items[i], TRUE, DefaultIndent,
               IF l.items[i].kind = "Map" THEN d ELSE d + 1)]

\* the entries of the Map m written at depth d, as they are written
EntryStrs(m, d) ==
    [i \in DOMAIN m.items |->
        m.items[i].key \o to_str(m.items[i].value, TRUE, DefaultIndent, d + 1)]

\* the List l at depth d, laid out as the claim says
ListLayout(l, d) ==
    IF Len(l.items) = 0 THEN <<"[", "]">>
    ELSE IF Len(l.items) = 1 THEN <<"[">> \o ElementStrs(l, d)[1] \o <<"]">>
    ELSE <<"[", "\n">> \o OnePerLine(ElementStrs(l, d), d + 1)
         \o Spaces(DefaultIndent * d) \o <<"]">>

\* the Map m at depth d, laid out as the claim says
MapLayout(m, d) ==
    IF Len(m.items) = 0 THEN <<"{", "}">>
    ELSE <<"{", "\n">> \o OnePerLine(EntryStrs(m, d), d + 1)
         \o Spaces(DefaultIndent * d) \o <<"}">>

\* str, which is not empty, is written in text
WrittenIn(text, str) ==
    \E i \in 1..(Len(text) - Len(str) + 1) :
        text[i] = str[1] /\ SubSeq(text, i, i + Len(str) - 1) = str

\* a pretty dump has been written
PrettyDumped == dialect = "soong" /\ pc = "dumped" /\ written.pretty

----------------------------------------------------------------------------
(* recurse.  An entry of a nested map, or a node of a nested list, is      *)
(* named by its path: the index of the entry or node that holds it at      *)
(* each level, and its own index last.                                     *)

\* p comes before q in pre-order: p is above q, or is at the left of q
\* where they part
Precedes(p, q) ==
    \/ Len(p) < Len(q) /\ SubSeq(q, 1, Len(p)) = p
    \/ \E k \in 1..Len(p) :
           /\ k <= Len(q)
           /\ SubSeq(p, 1, k - 1) = SubSeq(q, 1, k - 1)
           /\ p[k] < q[k]

\* the path of paths that has j - 1 of them before it
PathNo(paths, j) ==
    CHOOSE p \in paths : Cardinality({q \in paths : Precedes(q, p)}) = j - 1

\* the paths of length up to d, all of them when d = -1
Within(paths, d) == {p \in paths : d = -1 \/ Len(p) <= d}

RECURSIVE EntryPaths(_)
\* the paths of the entries of the map m and of the maps that are values
\* of entries
EntryPaths(m) ==
    {<<i>> : i \in DOMAIN m.items}
    \cup UNION {{<<i>> \o q : q \in EntryPaths(m.items[i].value.value)} :
                   i \in {k \in DOMAIN m.items : m.items[k].value.value.kind = "Map"}}

RECURSIVE MapOf(_, _)
\* the map that the entry at path p of m is an entry of
MapOf(m, p) ==
    IF Len(p) = 1 THEN m ELSE MapOf(m.items[p[1]].value.value, Tail(p))

\* the tuple y is the one of the entry at path p of m
IsTupleOf(y, m, p) ==
    /\ y.depth = Len(p)
    /\ y.key = MapOf(m, p).items[Last(p)].key
    /\ y.value = MapOf(m, p).items[Last(p)].value
    /\ y.parent = MapOf(m, p)

\* Map.recurse has been called
MapRecursed == dialect = "soong" /\ pc = "recursed"

(* C18: Map.recurse(max_depth) yields exactly one tuple (key, value,       *)
(* depth, parent) for every entry of the map and of every map that is the  *)
(* value of an entry, in pre-order; parent is the map that holds the key,  *)
(* depth is 1 for the entries of the map itself and one more per level;    *)
(* it does not go into lists; with max_depth = d >= 0 only the entries of  *)
(* depth <= d are yielded, and -1 is no bound.                             *)
C18_MapRecurse ==
    MapRecursed =>
        \E paths \in {Within(EntryPaths(ast[1].expr), written.max_depth)} :
            /\ Len(written.yielded) = Cardinality(paths)
            /\ \A j \in DOMAIN written.yielded :
                   IsTupleOf(written.yielded[j], ast[1].expr, PathNo(paths, j))

\* recurse without a bound has yielded an entry of depth 3 before an entry
\* of depth 1, a later sibling of the map that holds it, and has not gone
\* into a list that holds a map
C18_Witness ==
    /\ MapRecursed
    /\ written.max_depth = -1
    /\ \E j \in DOMAIN written.yielded :
           /\ written.yielded[j].depth = 3
           /\ j < Len(written.yielded)
           /\ written.yielded[Len(written.yielded)].depth = 1
    /\ \E j \in DOMAIN written.yielded : written.yielded[j].value.value.kind = "List"

RECURSIVE NodePaths(_)
\* the paths of the nodes of the list lst and of the lists that are
\* children of nodes
NodePaths(lst) ==
    {<<i>> : i \in DOMAIN lst}
    \cup UNION {{<<i>> \o q : q \in NodePaths(lst[i].child.items)} :
                   i \in {k \in DOMAIN lst : has_child(lst[k]) /\ lst[k].child.kind = "BlockList"}}

RECURSIVE NodeAt(_, _)
\* the node at path p of lst
NodeAt(lst, p) ==
    IF Len(p) = 1 THEN lst[p[1]] ELSE NodeAt(lst[p[1]].child.items, Tail(p))

\* Makefile.recurse has been called
MakeRecursed == dialect = "make" /\ pc = "recursed"

(* C19: Makefile.recurse(max_depth) yields the nodes of the lists in       *)
(* pre-order: an element of a list before the elements of its child list,  *)
(* and those before its later siblings; with max_depth = d >= 0 only the   *)
(* nodes nested fewer than d lists deep are yielded, none for d = 0, and   *)
(* -1 is no bound.                                                         *)
C19_MakeRecurse ==
    MakeRecursed =>
        \E paths \in {Within(NodePaths(makefile), written.max_depth)} :
            /\ Len(written.yielded) = Cardinality(paths)
            /\ \A j \in DOMAIN written.yielded :
                   written.yielded[j] = NodeAt(makefile, PathNo(paths, j))

\* recurse without a bound has yielded a node that is nested in two lists
\* before a later sibling of the node that holds it
C19_Witness ==
    /\ MakeRecursed
    /\ written.max_depth = -1
    /\ \E p \in NodePaths(makefile) :
           /\ Len(p) = 3
           /\ \E q \in NodePaths(makefile) : Len(q) = 2 /\ q[1] = p[1] /\ q[2] > p[2]

----------------------------------------------------------------------------
(* Lexical errors.  Of the characters of the texts, "$" is one that no     *)
(* rule of the Lexer matches, and it is never in a string or a comment;    *)
(* where no quote comes before it, it is the first such character.         *)

\* the index of the first "$" of text
FirstDollar(text) ==
    CHOOSE i \in DOMAIN text :
        text[i] = "$" /\ \A k \in 1..(i - 1) : text[k] # "$"

\* text has a "$", and no string before the first of them
DollarIsFirstUnmatched(text) ==
    /\ \E i \in DOMAIN text : text[i] = "$"
    /\ \A k \in 1..FirstDollar(text) : text[k] # "\""

\* the number of the line that index i of text is in
LineNo(text, i) == 1 + Cardinality({k \in 1..(i - 1) : text[k] = "\n"})

\* message names the position i of text: its index from 0 or from 1, or its
\* line
NamesPosition(message, text, i) ==
    \E n \in {i - 1, i, LineNo(text, i)} : Occurs(message, decimal(n))

(* C20: Ast.loads of a text with a character that no token, whitespace or  *)
(* comment rule matches raises an error that names the character and its   *)
(* position; lexing stops at the character, and no Ast is returned.        *)
C20_IllegalCharacterNamed ==
    (dialect = "soong" /\ pc \in {"loaded", "raised"}
        /\ DollarIsFirstUnmatched(contents)) =>
        /\ pc = "raised"
        /\ ast = <<>>
        /\ written.handler = "Lexer.error"
        /\ Occurs(written.message, <<"$">>)
        /\ NamesPosition(written.message, contents, FirstDollar(contents))

----------------------------------------------------------------------------
(* Backups of build-system.py.                                             *)

\* a run of --remove-tests has been made
RunMade == dialect = "build-system" /\ Len(op.files) > 1

\* the contents of the build file at the start of the last run
FileBefore == op.files[Len(op.files) - 1]

(* C21: a run of --remove-tests without --disable-backup on a file that    *)
(* has no <path>.bak copies the file to <path>.bak before it rewrites it,  *)
(* so that after the run the backup holds the contents the file had; the   *)
(* backup is skipped only when --disable-backup is passed.                 *)
C21_BackupByDefault ==
    [][(dialect = "build-system" /\ written = <<>>) =>
          /\ ~op'.passed => written' = <<contents>>
          /\ written' = <<>> => op'.passed]_vars

\* <path>.bak exists
BackupExists == dialect = "build-system" /\ written # <<>>

(* C30: across the runs of --remove-tests on a file, once <path>.bak       *)
(* exists it holds the original contents of the file, those it had before  *)
(* the first run, and the contents of the file after every run are those   *)
(* after the first run.                                                    *)
C30_BackupHoldsOriginal ==
    BackupExists =>
        /\ written[1] = op.files[1]
        /\ \A n \in 2..Len(op.files) : op.files[n] = op.files[2]

(* C30, amended: once <path>.bak exists no run of --remove-tests writes it *)
(* again: it keeps the contents the file had at the start of the run that  *)
(* made it, and every later run restores the file from it before it        *)
(* processes it, so that the file is after every later run as it was after *)
(* the run that made the backup.                                           *)
C30_BackupKept ==
    [][/\ (dialect = "build-system" /\ written = <<>> /\ written' # <<>>)
              => written' = <<contents>>
       /\ BackupExists
              => /\ written' = written
                 /\ contents' = remove_makefile_tests(written[1]).file
                 /\ contents' = contents]_vars

\* two runs have been made, the first of them made the backup, and the file
\* is not as it was before them
C30_Witness ==
    /\ BackupExists
    /\ Len(op.files) >= 3
    /\ written[1] = op.files[1]
    /\ op.files[2] # op.files[1]
    /\ contents = op.files[2]

----------------------------------------------------------------------------
(* The filter of a CommentBlock or DirectiveBlock, stated by what is kept. *)

RECURSIVE Succeeds(_, _)
\* the filter of node n with predicate p succeeds: p holds for a Block; a
\* list is left with an element; p holds for a CommentBlock or
\* DirectiveBlock and the filter of its child succeeds
Succeeds(n, p) ==
    CASE n.kind = "Block" -> Apply(p, n)
      [] n.kind = "BlockList" -> \E i \in DOMAIN n.items : Succeeds(n.items[i], p)
      [] OTHER -> Apply(p, n) /\ Succeeds(n.child, p)

RECURSIVE LeftOf(_, _)
RECURSIVE LeftOfList(_, _)
\* the node n as the filter leaves it when it succeeds
LeftOf(n, p) ==
    CASE n.kind = "Block" -> n
      [] n.kind = "BlockList" -> [n EXCEPT !.items = LeftOfList(n.items, p)]
      [] OTHER -> [n EXCEPT !.child = LeftOf(n.child, p)]

\* the nodes of lst whose filter succeeds, as the filter leaves them
LeftOfList(lst, p) ==
    IF lst = <<>> THEN <<>>
    ELSE (IF Succeeds(lst[1], p) THEN <<LeftOf(lst[1], p)>> ELSE <<>>)
         \o LeftOfList(Tail(lst), p)

\* the CommentBlocks and DirectiveBlocks of a tree that p rejects come back
\* from filter as they were
RejectedUntouched(mk, p) ==
    \A i \in 1..Len(TreeNodes(mk)) :
        (has_child(TreeNodes(mk)[i]) /\ ~Apply(p, TreeNodes(mk)[i]))
            => filter(TreeNodes(mk)[i], p) = [keep |-> FALSE, node |-> TreeNodes(mk)[i]]

(* C22: the filter of a DirectiveBlock or CommentBlock keeps the node only *)
(* if p holds for the node and the filter of its child succeeds: for a     *)
(* child that is one node, if that node is kept, and for a list, if the    *)
(* list is not empty after its filter; a node whose children are all       *)
(* removed is removed with them, and the children of a node p rejects are  *)
(* left as they were.                                                      *)
C22_WrapperFilter ==
    [][(dialect' = "make" /\ pc' = "filtered")
          => /\ makefile' = LeftOfList(makefile, op')
             /\ RejectedUntouched(makefile, op')]_vars

\* the first filter of a tree has removed a CommentBlock or DirectiveBlock
\* that its predicate holds for, with all its children
C22_Witness ==
    /\ MakeFiltered
    /\ makefile = LeftOfList(Parsed, op)
    /\ \E i \in DOMAIN Parsed :
           /\ has_child(Parsed[i])
           /\ Apply(op, Parsed[i])
           /\ Parsed[i].child.kind = "BlockList"
           /\ Parsed[i].child.items # <<>>
           /\ ~Succeeds(Parsed[i].child, op)

Py2CModule == <<"p","y","2","-","c","-","m","o","d","u","l","e">>

\* the map of the scope that was classified has a name field that is a
\* string with word in it, whatever the case
NameFieldHas(word) ==
    \E i \in DOMAIN ast[1].map.items :
        /\ ast[1].map.items[i].key = IdName
        /\ ast[1].map.items[i].value.value.kind = "String"
        /\ Occurs(ast[1].map.items[i].value.value.value, word)

(* C23: a scope whose name field has 'py2-c-module' in it, whatever the    *)
(* case, is never classified as a test by Scope.is_test, whatever its name *)
(* and its type name match otherwise, so that the dev filter does not      *)
(* remove it for being a test.                                             *)
C23_Py2ModuleNeverTest ==
    (pc = "classified" /\ NameFieldHas(Py2CModule)) => written.is_test = "False"

IdentChars == Letters \cup Digits \cup {"_"}

\* text has no string, no comment and no character the lexer has no rule for
Plain(text) == \A i \in DOMAIN text : text[i] \notin {"\"", "/", "$"}

\* where the maximal runs of letters, digits and underscores of text start
RunStarts(text) ==
    {i \in DOMAIN text : text[i] \in IdentChars /\ (i = 1 \/ text[i - 1] \notin IdentChars)}

\* the maximal run that starts at i
RunAt(text, i) ==
    SubSeq(text, i, CHOOSE j \in i..Len(text) :
                        /\ \A k \in i..j : text[k] \in IdentChars
                        /\ (j = Len(text) \/ text[j + 1] \notin IdentChars))

\* every run of text starts with a letter or an underscore, or is a number
WordsAndNumbers(text) ==
    \A i \in RunStarts(text) :
        text[i] \in Digits => \A k \in DOMAIN RunAt(text, i) : RunAt(text, i)[k] \in Digits

\* the runs of text that start with a letter or an underscore, in order,
\* each as the one token it is to be
WordTokens(text) ==
    LET starts == {i \in RunStarts(text) : text[i] \notin Digits}
        nth(n) == CHOOSE i \in starts : Cardinality({j \in starts : j < i}) = n - 1
    IN  [n \in 1..Cardinality(starts) |->
            [type |-> IF RunAt(text, nth(n)) \in {<<"t","r","u","e">>, <<"f","a","l","s","e">>}
                      THEN "BOOL" ELSE "IDENT",
             value |-> RunAt(text, nth(n))]]

IsWordToken(t) == t.type \in {"IDENT", "BOOL"}

(* C24: the lexer emits every maximal run of letters, digits and           *)
(* underscores that starts with a letter or an underscore as one IDENT     *)
(* token, and as one BOOL token when the run is exactly true or false: an  *)
(* identifier that only begins with true or false is one IDENT token.      *)
C24_IdentIsMaximalRun ==
    (dialect = "soong" /\ Plain(contents) /\ WordsAndNumbers(contents))
        => SelectSeq(tokenize(contents).tokens, IsWordToken) = WordTokens(contents)

(* C25: the parse of a makefile is total: loads raises for no text, and    *)
(* the NotImplementedError branches of CommentBlock.split_comments and     *)
(* CommentBlock.group_comments are never reached from loads.               *)
C25_LoadsTotal ==
    dialect = "make" => (pc # "raised" /\ error # "NotImplementedError")

\* the headers _split_comments finds in the text that was loaded
Headers == finditer(splitlines(contents), 1)

\* header j ends with the line it ends in, its trailing newline taken
EndsItsLine(j) ==
    /\ Headers[j].col = Len(splitlines(contents)[Headers[j].last])
    /\ Headers[j].last < Len(splitlines(contents))

\* header j + 1 starts on the line after the one header j ends in
Adjacent(j) == Headers[j + 1].first = Headers[j].last + 1

(* C26: the assertions of the step that splits comments hold for every     *)
(* input: the text between two consecutive comment headers ends with a     *)
(* newline and is never empty, also for adjacent headers of different      *)
(* separator styles, and a first header that is not at the start of the    *)
(* text comes right after a newline.                                       *)
C26_SplitAssertionsHold ==
    (dialect = "make" /\ pc \in {"loaded", "raised"})
        => /\ error # "AssertionError"
           /\ \A j \in 1..(Len(Headers) - 1) : ~(EndsItsLine(j) /\ Adjacent(j))

(* C27: filter with a predicate that holds of every node removes nothing   *)
(* from a parsed makefile tree: the tree and what it is serialized to are  *)
(* after the call what they were before it, also where a comment header    *)
(* owns no body and where a directive block has an empty body.             *)
C27_AlwaysKeepsAll ==
    [][(dialect = "make" /\ pc = "loaded" /\ pc' = "filtered" /\ op' = "always")
          => (makefile' = makefile /\ dumps(makefile') = dumps(makefile))]_vars

\* how many times node n is in the sequence seq
Times(seq, n) == Cardinality({j \in DOMAIN seq : seq[j].kind = n.kind /\ seq[j] = n})

(* C28: recurse() without a bound yields every CommentBlock and every      *)
(* DirectiveBlock of a parsed makefile tree exactly once, at whatever      *)
(* depth it is, also one that is the only child of a DirectiveBlock or of  *)
(* a CommentBlock, held as a node and not in a list.                       *)
C28_RecurseYieldsWrappers ==
    (MakeRecursed /\ written.max_depth = -1)
        => \A i \in 1..Len(TreeNodes(makefile)) :
               has_child(TreeNodes(makefile)[i])
                   => Times(written.yielded, TreeNodes(makefile)[i])
                          = Times(TreeNodes(makefile), TreeNodes(makefile)[i])

\* the indent widths dumps is called with
Indents == 0..MaxIndent

\* text is parsed to an Ast that is written as text again, pretty
PrintsAsItself(text, indent) ==
    /\ Ast_loads(text).error = ""
    /\ Ast_dumps(Ast_loads(text).ast, TRUE, indent) = text

(* C29: the pretty print of a blueprint Ast is a fixed point of parsing    *)
(* and printing: for every Ast A and every indent width,                   *)
(* dumps(loads(dumps(A))) = dumps(A), with the ':' and '=' delimiters, the *)
(* order of the entries and the '+' nested to the left as they were.       *)
C29_PrettyFixedPoint ==
    SoongLoaded =>
        \A indent \in Indents : PrintsAsItself(Ast_dumps(ast, TRUE, indent), indent)

\* an Ast was loaded that has both delimiters in a map, and a '+' whose
\* left operand is a '+', and its pretty print has indented rows
C29_Witness ==
    /\ SoongLoaded
    /\ \E parts \in {AstParts(ast)} :
           /\ \E j \in DOMAIN parts :
                  parts[j].node.kind = "MapValue" /\ parts[j].node.delimiter = <<":">>
           /\ \E j \in DOMAIN parts :
                  parts[j].node.kind = "MapValue" /\ parts[j].node.delimiter = <<"=">>
           /\ \E j \in DOMAIN parts :
                  /\ parts[j].node.kind = "BinaryOperator"
                  /\ parts[j].node.lhs.kind = "BinaryOperator"
    /\ Ast_dumps(ast, TRUE, 0) # Ast_dumps(ast, TRUE, MaxIndent)

====
